---- MODULE Spec2Model ----
(***************************************************************************)
(* Benjamin Graham stock screener: the filter, the scorer, the ranker and  *)
(* the run_screen pipeline of src/screener.py; metric extraction, the      *)
(* estimates and their triangulation of src/valuations.py; main of         *)
(* src/graham_scan.py; the requests and the key rotation of                *)
(* src/data_providers.py and src/api_keys.py.                              *)
(*                                                                         *)
(* Numbers.  The program computes with floats; the model keeps every       *)
(* quantity as an integer in a fixed unit, chosen so that every threshold  *)
(* of the code is an integer:                                              *)
(*   ratios (current_ratio, debt_to_equity, pe_ratio, pb_ratio) and        *)
(*   fractions (earnings_growth, margin_of_safety): hundredths             *)
(*       2.0 -> 200, 0.5 -> 50, 15.0 -> 1500, 5% -> 5                      *)
(*   pe_ratio * pb_ratio: ten-thousandths, 22.5 -> 225000                  *)
(*   prices, per-share values: cents                                       *)
(* An Optional[float] is <<>> (None) or <<v>>.                             *)
(***************************************************************************)
EXTENDS Integers, Sequences, FiniteSets, TLC

VARIABLES
    config,      \* the Config of the run (thresholds, top_count)
    inputs,      \* the metrics and margins to score, before any ScreenResult exists
    results,     \* the list handed to _apply_graham_filters (run_screen: all_results)
    outcome,     \* "unscored" | "pending" | "returned" | "raised": how far the
                 \* scorer and _apply_graham_filters got, and how the filter ended
    qualified,   \* the list _apply_graham_filters returned
    reasons,     \* per processed candidate, the `reasons` list the filter built
    universe,    \* run_screen: the tickers to screen, in order
    provider,    \* run_screen: per ticker, what the data provider and valuator give
    pc,          \* run_screen: position of the coroutine
    batch_start, \* run_screen: the loop variable i of the batch loop
    tasks,       \* _screen_batch: per ticker of the batch, the task's result so far
    top_stocks,  \* run_screen: the returned list
    qualified_stocks, \* _rank_stocks: the list it is called on (its elements are
                   \* the caller's objects, so rank shows here too)
    ranked,        \* _rank_stocks: the list it returned
    statements,    \* GrahamValuator: the FinancialStatement list of one ticker
    current_price, \* GrahamValuator: the price the estimates are compared with
    snapshot,      \* GrahamValuator: what _calculate_financial_metrics produced
    estimates,     \* GrahamValuator: the ValuationResults collected so far
    triangulated,  \* what triangulate_value returned
    key_manager,   \* APIKeyManager: the number of keys and current_index
    alpha_vantage, \* AlphaVantageProvider: api_key, whether self.key_manager is
                   \* set, request_count
    requests,      \* the calls of _make_request under way
    exit_code      \* what main returned, once it has

vars == <<config, inputs, results, outcome, qualified, reasons,
          universe, provider, pc, batch_start, tasks, top_stocks,
          qualified_stocks, ranked, statements, current_price, snapshot,
          estimates, triangulated,
          key_manager, alpha_vantage, requests, exit_code>>

screen_vars == <<universe, provider, pc, batch_start, tasks, top_stocks>>

\* the state of the filter harness and of the batch loop, without pc
filter_vars == <<config, inputs, results, outcome, qualified, reasons>>

batch_vars == <<universe, provider, batch_start, tasks, top_stocks>>

rank_vars == <<qualified_stocks, ranked>>

valuator_vars == <<statements, current_price, snapshot, estimates,
                   triangulated>>

provider_vars == <<key_manager, alpha_vantage, requests>>

(***************************************************************************)
(* Optional values and Python truthiness                                   *)
(***************************************************************************)
None == <<>>

Some(v) == <<v>>

Val(x) == x[1]

\* `if x:` on an Optional[float]: None and 0.0 are both falsy
Truthy(x) == x # None /\ Val(x) # 0

Min(a, b) == IF a <= b THEN a ELSE b

(***************************************************************************)
(* Config (src/config.py)                                                  *)
(***************************************************************************)
DefaultConfig ==
    [ top_count            |-> 10,
      years                |-> 7,
      min_market_cap       |-> None,
      min_current_ratio    |-> 200,
      max_debt_to_equity   |-> 50,
      max_pe_ratio         |-> 1500,
      max_pb_ratio         |-> 150,
      min_margin_of_safety |-> 50,
      capex_multiplier          |-> 120,
      depreciation_conservatism |-> 110,
      data_provider        |-> "alpha_vantage",
      api_key              |-> None,
      dry_run              |-> FALSE ]

\* A run with every threshold relaxed, a market-cap floor and a short top list
LenientConfig ==
    [ top_count            |-> 2,
      years                |-> 7,
      min_market_cap       |-> Some(1000),
      min_current_ratio    |-> 150,
      max_debt_to_equity   |-> 80,
      max_pe_ratio         |-> 3000,
      max_pb_ratio         |-> 300,
      min_margin_of_safety |-> 30,
      capex_multiplier          |-> 150,
      depreciation_conservatism |-> 100,
      data_provider        |-> "alpha_vantage",
      api_key              |-> None,
      dry_run              |-> FALSE ]

Configs == {DefaultConfig, LenientConfig}

\* A run that asks the provider for four years of statements
ShortConfig == [DefaultConfig EXCEPT !.years = 4]

ScreenConfigs == Configs \cup {ShortConfig}

(***************************************************************************)
(* _calculate_graham_score (src/screener.py:256-319)                       *)
(***************************************************************************)
\* mutation of line 264: 25 points for the top liquidity bucket
LiquidityScoreHigh(m) ==
    IF Truthy(m.current_ratio)
    THEN IF Val(m.current_ratio) >= 300 THEN 25
         ELSE IF Val(m.current_ratio) >= 200 THEN 15
         ELSE IF Val(m.current_ratio) >= 150 THEN 10
         ELSE IF Val(m.current_ratio) >= 100 THEN 5
         ELSE 0
    ELSE 0

LiquidityScore(m) ==
    IF Truthy(m.current_ratio)
    THEN IF Val(m.current_ratio) >= 300 THEN 20
         ELSE IF Val(m.current_ratio) >= 200 THEN 15
         ELSE IF Val(m.current_ratio) >= 150 THEN 10
         ELSE IF Val(m.current_ratio) >= 100 THEN 5
         ELSE 0
    ELSE 0

\* mutation of line 273: `if metrics.debt_to_equity:` in place of `is not None`
LeverageScoreTruthy(m) ==
    IF Truthy(m.debt_to_equity)
    THEN IF Val(m.debt_to_equity) <= 30 THEN 15
         ELSE IF Val(m.debt_to_equity) <= 50 THEN 10
         ELSE IF Val(m.debt_to_equity) <= 70 THEN 5
         ELSE 0
    ELSE 0

LeverageScore(m) ==
    IF m.debt_to_equity # None
    THEN IF Val(m.debt_to_equity) <= 30 THEN 15
         ELSE IF Val(m.debt_to_equity) <= 50 THEN 10
         ELSE IF Val(m.debt_to_equity) <= 70 THEN 5
         ELSE 0
    ELSE 0

ValuationScore(m) ==
    (IF Truthy(m.pe_ratio)
     THEN IF Val(m.pe_ratio) <= 1000 THEN 15
          ELSE IF Val(m.pe_ratio) <= 1500 THEN 10
          ELSE IF Val(m.pe_ratio) <= 2000 THEN 5
          ELSE 0
     ELSE 0)
    +
    (IF Truthy(m.pb_ratio)
     THEN IF Val(m.pb_ratio) <= 100 THEN 10
          ELSE IF Val(m.pb_ratio) <= 150 THEN 5
          ELSE 0
     ELSE 0)

GrowthScore(m) ==
    IF Truthy(m.earnings_growth)
    THEN IF Val(m.earnings_growth) >= 10 THEN 15
         ELSE IF Val(m.earnings_growth) >= 5 THEN 10
         ELSE IF Val(m.earnings_growth) > 0 THEN 5
         ELSE 0
    ELSE 0

DividendScore(m) ==
    IF m.dividend_years >= 10 THEN 10
    ELSE IF m.dividend_years >= 5 THEN 5
    ELSE 0

MarginScore(margin_of_safety) ==
    IF margin_of_safety >= 70 THEN 15
    ELSE IF margin_of_safety >= 50 THEN 10
    ELSE IF margin_of_safety >= 30 THEN 5
    ELSE 0

\* `score` when line 319 is reached, before the cap
UncappedScore(m, margin_of_safety) ==
    LiquidityScore(m) + LeverageScore(m) + ValuationScore(m)
        + GrowthScore(m) + DividendScore(m) + MarginScore(margin_of_safety)

_calculate_graham_score(m, margin_of_safety) ==
    Min(UncappedScore(m, margin_of_safety), 100)

(***************************************************************************)
(* FinancialMetrics (src/valuations.py:24-38) and ScreenResult             *)
(* (src/screener.py:20-32): the fields the screener reads                  *)
(***************************************************************************)
FinancialMetrics(cr, de, eg, dy, pe, pb, bv) ==
    [ current_ratio        |-> cr,
      debt_to_equity       |-> de,
      earnings_growth      |-> eg,
      dividend_years       |-> dy,
      pe_ratio             |-> pe,
      pb_ratio             |-> pb,
      book_value_per_share |-> bv ]

\* FinancialMetrics(ticker=...) with every other field at its default
EmptyMetrics == FinancialMetrics(None, None, None, 0, None, None, None)

\* rank is not passed to the constructor: the dataclass default 0
ScreenResult(ticker, price, value, margin, metrics, score) ==
    [ ticker           |-> ticker,
      current_price    |-> price,
      intrinsic_value  |-> value,
      margin_of_safety |-> margin,
      metrics          |-> metrics,
      graham_score     |-> score,
      rank             |-> 0 ]

(***************************************************************************)
(* _apply_graham_filters (src/screener.py:206-254)                         *)
(*                                                                         *)
(* A reason is recorded as the number 1..8 of the check that appended it.  *)
(***************************************************************************)
\* line 215
Check1Fails(r, cfg) ==
    ~Truthy(r.metrics.current_ratio)
        \/ Val(r.metrics.current_ratio) < cfg.min_current_ratio

\* line 216: the reason formats current_ratio with :.2f, and format()
\* of None with a float format spec raises TypeError
Check1Raises(r, cfg) ==
    Check1Fails(r, cfg) /\ r.metrics.current_ratio = None

\* line 219
Check2Fails(r, cfg) ==
    Truthy(r.metrics.debt_to_equity)
        /\ Val(r.metrics.debt_to_equity) > cfg.max_debt_to_equity

\* line 223
Check3Fails(r, cfg) ==
    ~Truthy(r.metrics.earnings_growth)
        \/ Val(r.metrics.earnings_growth) < 0

\* mutation of line 227: the PE ratio is compared with twice the maximum
Check4FailsAboveTwice(r, cfg) ==
    Truthy(r.metrics.pe_ratio)
        /\ Val(r.metrics.pe_ratio) > 2 * cfg.max_pe_ratio

\* line 227
Check4Fails(r, cfg) ==
    Truthy(r.metrics.pe_ratio)
        /\ Val(r.metrics.pe_ratio) > cfg.max_pe_ratio

\* line 231
Check5Fails(r, cfg) ==
    Truthy(r.metrics.pb_ratio)
        /\ Val(r.metrics.pb_ratio) > cfg.max_pb_ratio

\* mutation of lines 235-236: the combined rule is skipped when PE alone passes
Check6FailsUnlessPeOk(r, cfg) ==
    /\ Truthy(r.metrics.pe_ratio)
    /\ Truthy(r.metrics.pb_ratio)
    /\ Val(r.metrics.pe_ratio) > cfg.max_pe_ratio
    /\ Val(r.metrics.pe_ratio) * Val(r.metrics.pb_ratio) > 225000

\* lines 235-236
Check6Fails(r, cfg) ==
    /\ Truthy(r.metrics.pe_ratio)
    /\ Truthy(r.metrics.pb_ratio)
    /\ Val(r.metrics.pe_ratio) * Val(r.metrics.pb_ratio) > 225000

\* line 240
Check7Fails(r, cfg) ==
    r.margin_of_safety < cfg.min_margin_of_safety

\* line 244
Check8Fails(r, cfg) ==
    ~Truthy(r.metrics.book_value_per_share)
        \/ Val(r.metrics.book_value_per_share) <= 0

\* lines 212-245 for a candidate on which line 216 does not raise
ReasonsOf(r, cfg) ==
    (IF Check1Fails(r, cfg) THEN <<1>> ELSE <<>>)
    \o (IF Check2Fails(r, cfg) THEN <<2>> ELSE <<>>)
    \o (IF Check3Fails(r, cfg) THEN <<3>> ELSE <<>>)
    \o (IF Check4Fails(r, cfg) THEN <<4>> ELSE <<>>)
    \o (IF Check5Fails(r, cfg) THEN <<5>> ELSE <<>>)
    \o (IF Check6Fails(r, cfg) THEN <<6>> ELSE <<>>)
    \o (IF Check7Fails(r, cfg) THEN <<7>> ELSE <<>>)
    \o (IF Check8Fails(r, cfg) THEN <<8>> ELSE <<>>)

\* The loop of lines 211-251 from candidate i on, with `qualified` = q and
\* the reasons lists built so far = log.  An exception leaves the function
\* at once: nothing is returned.
RECURSIVE FilterLoop(_, _, _, _, _)
FilterLoop(rs, cfg, i, q, log) ==
    IF i > Len(rs)
    THEN [raised |-> FALSE, qualified |-> q, reasons |-> log]
    ELSE IF Check1Raises(rs[i], cfg)
    THEN [raised |-> TRUE, qualified |-> <<>>, reasons |-> log]
    ELSE FilterLoop(rs, cfg, i + 1,
                    IF ReasonsOf(rs[i], cfg) = <<>> THEN Append(q, rs[i]) ELSE q,
                    Append(log, ReasonsOf(rs[i], cfg)))

_apply_graham_filters(rs, cfg) == FilterLoop(rs, cfg, 1, <<>>, <<>>)

(***************************************************************************)
(* The inputs of the filter and the scorer                                 *)
(*                                                                         *)
(* Every range holds the values on both sides of each threshold the code   *)
(* compares against, and the absent value.  As the metric extractor builds *)
(* them (src/valuations.py:103-157), current_ratio, pe_ratio, pb_ratio and *)
(* book_value_per_share are never 0 when present; debt_to_equity is 0 for  *)
(* a company without debt, earnings_growth is 0 for flat earnings.         *)
(***************************************************************************)
CurrentRatios == {None, Some(80), Some(100), Some(150), Some(200), Some(300)}

DebtToEquities == {None, Some(0), Some(30), Some(50), Some(70), Some(80)}

EarningsGrowths == {None, Some(-5), Some(0), Some(3), Some(5), Some(10)}

DividendYears == {0, 5, 10}

PeRatios == {None, Some(1000), Some(1500), Some(2000), Some(2500)}

PbRatios == {None, Some(100), Some(150), Some(200)}

BookValues == {None, Some(-500), Some(1000)}

Margins == {10, 30, 50, 70}

\* What is known of a candidate before it is scored
Candidate(ticker, m, margin) ==
    [ticker |-> ticker, metrics |-> m, margin_of_safety |-> margin]

\* The ScreenResult as _screen_single_stock builds it (lines 186-200): the
\* score is that of the metrics and the margin
Scored(c) ==
    ScreenResult(c.ticker, 2000, 3000, c.margin_of_safety, c.metrics,
                 _calculate_graham_score(c.metrics, c.margin_of_safety))

GridCandidates ==
    { Candidate("GRID", FinancialMetrics(cr, de, eg, dy, pe, pb, bv), mg) :
        cr \in CurrentRatios, de \in DebtToEquities, eg \in EarningsGrowths,
        dy \in DividendYears, pe \in PeRatios, pb \in PbRatios,
        bv \in BookValues, mg \in Margins }

\* The candidates of src/test_screener.py and of the spec's examples
Good ==
    Candidate("GOOD",
        FinancialMetrics(Some(250), Some(30), Some(8), 10, Some(1200), Some(120), Some(2000)),
        60)

Bad ==
    Candidate("BAD",
        FinancialMetrics(Some(120), Some(80), Some(-5), 0, Some(2500), Some(200), Some(1000)),
        10)

Combo ==
    Candidate("COMBO",
        FinancialMetrics(Some(250), Some(30), Some(5), 5, Some(1400), Some(200), Some(1000)),
        60)

Zero == Candidate("ZERO", EmptyMetrics, -100)

Negative ==
    Candidate("NEGATIVE",
        FinancialMetrics(Some(300), Some(20), Some(5), 10, Some(1000), Some(100), Some(-500)),
        60)

\* three years of flat positive earnings: _calculate_earnings_growth gives 0.0
Flat ==
    Candidate("FLAT",
        FinancialMetrics(Some(250), Some(30), Some(0), 10, Some(1200), Some(120), Some(2000)),
        60)

\* no debt and no usable earnings per share: the three optional ratios absent
Bare ==
    Candidate("BARE",
        FinancialMetrics(Some(250), None, Some(8), 10, None, None, Some(2000)),
        60)

Fixtures == {Good, Bad, Combo, Zero, Negative, Flat, Bare}

MaxResults == 3

RECURSIVE SeqsUpTo(_, _)
SeqsUpTo(S, n) ==
    IF n = 0 THEN {<<>>}
    ELSE LET shorter == SeqsUpTo(S, n - 1)
         IN  shorter \cup { Append(s, x) : s \in shorter, x \in S }

InputLists == { <<c>> : c \in GridCandidates } \cup SeqsUpTo(Fixtures, MaxResults)

(***************************************************************************)
(* The filter called on a list of candidates                               *)
(***************************************************************************)
\* no ranking and no valuation is going on
IdleRank ==
    /\ qualified_stocks = <<>>
    /\ ranked = <<>>

IdleValuator ==
    /\ statements = <<>>
    /\ current_price = 0
    /\ snapshot = <<>>
    /\ estimates = <<>>
    /\ triangulated = <<>>

\* no request is under way and main has not returned
IdleProvider ==
    /\ key_manager = <<>>
    /\ alpha_vantage = <<>>
    /\ requests = <<>>
    /\ exit_code = None

IdleScreen ==
    /\ universe = <<>>
    /\ provider = <<>>
    /\ pc = "idle"
    /\ batch_start = 0
    /\ tasks = <<>>
    /\ top_stocks = <<>>

Init ==
    /\ IdleProvider
    /\ config \in Configs
    /\ inputs \in InputLists
    /\ results = <<>>
    /\ outcome = "unscored"
    /\ qualified = <<>>
    /\ reasons = <<>>
    /\ IdleScreen
    /\ IdleRank
    /\ IdleValuator

\* every candidate is scored and becomes a ScreenResult
CalculateGrahamScore ==
    /\ pc = "idle"
    /\ outcome = "unscored"
    /\ results' = [i \in DOMAIN inputs |-> Scored(inputs[i])]
    /\ outcome' = "pending"
    /\ UNCHANGED <<provider_vars, exit_code, config, inputs, qualified, reasons, screen_vars,
                   rank_vars, valuator_vars>>

ApplyGrahamFilters ==
    /\ pc = "idle"
    /\ outcome = "pending"
    /\ LET out == _apply_graham_filters(results, config)
       IN  /\ outcome' = IF out.raised THEN "raised" ELSE "returned"
           /\ qualified' = out.qualified
           /\ reasons' = out.reasons
    /\ UNCHANGED <<provider_vars, exit_code, config, inputs, results, screen_vars,
                   rank_vars, valuator_vars>>

Next ==
    \/ CalculateGrahamScore
    \/ ApplyGrahamFilters

Spec == Init /\ [][Next]_vars

(***************************************************************************)
(* _rank_stocks (src/screener.py:321-336)                                  *)
(***************************************************************************)
\* mutation of line 328: the key (margin_of_safety, graham_score)
SortsBeforeMarginFirst(a, b) ==
    \/ a.margin_of_safety > b.margin_of_safety
    \/ /\ a.margin_of_safety = b.margin_of_safety
       /\ a.graham_score > b.graham_score

\* a sorts strictly before b under key (graham_score, margin_of_safety),
\* reverse=True
SortsBefore(a, b) ==
    \/ a.graham_score > b.graham_score
    \/ /\ a.graham_score = b.graham_score
       /\ a.margin_of_safety > b.margin_of_safety

\* mutation of lines 326-330: a sort that puts x in front of its ties
RECURSIVE InsertSortedTiesFirst(_, _)
InsertSortedTiesFirst(s, x) ==
    IF s = <<>> THEN <<x>>
    ELSE IF ~(Head(s).graham_score > x.graham_score
                \/ /\ Head(s).graham_score = x.graham_score
                   /\ Head(s).margin_of_safety > x.margin_of_safety)
         THEN <<x>> \o s
    ELSE <<Head(s)>> \o InsertSortedTiesFirst(Tail(s), x)

\* sorted() is stable, also with reverse=True: x goes behind every element
\* it does not strictly precede
RECURSIVE InsertSorted(_, _)
InsertSorted(s, x) ==
    IF s = <<>> THEN <<x>>
    ELSE IF SortsBefore(x, Head(s)) THEN <<x>> \o s
    ELSE <<Head(s)>> \o InsertSorted(Tail(s), x)

RECURSIVE SortedPrefix(_, _)
SortedPrefix(s, n) ==
    IF n = 0 THEN <<>> ELSE InsertSorted(SortedPrefix(s, n - 1), s[n])

_rank_stocks(stocks) ==
    LET sorted_stocks == SortedPrefix(stocks, Len(stocks))
    IN  [i \in 1..Len(stocks) |-> [sorted_stocks[i] EXCEPT !.rank = i]]

(***************************************************************************)
(* GrahamValuator.triangulate_value (src/valuations.py:437-454)            *)
(***************************************************************************)
\* mutation of line 450: weights.get(val.confidence, 0)
WeightUnrecognizedZero(confidence) ==
    CASE confidence = "high" -> 3
      [] confidence = "medium" -> 2
      [] confidence = "low" -> 1
      [] OTHER -> 0

Weight(confidence) ==
    CASE confidence = "high" -> 3
      [] confidence = "medium" -> 2
      [] confidence = "low" -> 1
      [] OTHER -> 1

RECURSIVE WeightedSum(_)
WeightedSum(valuations) ==
    IF valuations = <<>> THEN 0
    ELSE Head(valuations).intrinsic_value * Weight(Head(valuations).confidence)
            + WeightedSum(Tail(valuations))

RECURSIVE TotalWeight(_)
TotalWeight(valuations) ==
    IF valuations = <<>> THEN 0
    ELSE Weight(Head(valuations).confidence) + TotalWeight(Tail(valuations))

triangulate_value(valuations) ==
    IF valuations = <<>> THEN None
    ELSE IF TotalWeight(valuations) > 0
    THEN Some(WeightedSum(valuations) \div TotalWeight(valuations))
    ELSE None

(***************************************************************************)
(* _screen_single_stock (src/screener.py:147-204)                          *)
(*                                                                         *)
(* What the collaborators answer for one ticker:                           *)
(*   profile      "present" | "absent" | "error" (get_company_profile      *)
(*                raised)                                                  *)
(*   market_cap   the profile's market_cap                                 *)
(*   annual_reports  the annual reports the provider has of each kind:     *)
(*                income, balance, cash flow                               *)
(*   price        what get_stock_price returned                            *)
(*   valuator     "ok" | "error" (calculate_all_valuations raised)         *)
(*   valuations, metrics  what calculate_all_valuations returned           *)
(***************************************************************************)
TickerData(profile, market_cap, annual_reports, price, valuator, valuations, metrics) ==
    [ profile      |-> profile,
      market_cap   |-> market_cap,
      annual_reports |-> annual_reports,
      price        |-> price,
      valuator     |-> valuator,
      valuations   |-> valuations,
      metrics      |-> metrics ]

ValuationResult(method, intrinsic_value, confidence) ==
    [ method |-> method, intrinsic_value |-> intrinsic_value, confidence |-> confidence ]

\* mutation of data_providers.py:187: every annual report is parsed
AllAnnualReports(d, years) ==
    d.annual_reports[1] + d.annual_reports[2] + d.annual_reports[3]

\* len() of what get_financial_statements returns (data_providers.py:156-203):
\* of each kind the first `years` annual reports
get_financial_statements(d, years) ==
    Min(d.annual_reports[1], years) + Min(d.annual_reports[2], years)
        + Min(d.annual_reports[3], years)

\* mutation of line 170: only an absent price is unusable
PriceUnusableIfAbsent(price) ==
    price = None

\* line 170: not current_price or current_price <= 0
PriceUnusable(price) ==
    ~Truthy(price) \/ Val(price) <= 0

\* The result of the coroutine: None or a ScreenResult.  Every exception
\* raised inside the try block is caught at line 202 and becomes None.
_screen_single_stock(ticker, d, cfg) ==
    IF d.profile # "present" THEN None
    ELSE IF /\ Truthy(cfg.min_market_cap)
            /\ Truthy(d.market_cap)
            /\ Val(d.market_cap) < Val(cfg.min_market_cap) THEN None
    ELSE IF get_financial_statements(d, cfg.years) < 15 THEN None
    ELSE IF PriceUnusable(d.price) THEN None
    ELSE IF d.valuator = "error" THEN None
    ELSE IF d.valuations = <<>> THEN None
    ELSE LET triangulated_value == triangulate_value(d.valuations)
         IN  IF ~Truthy(triangulated_value) THEN None
             ELSE LET margin_of_safety ==
                          ((Val(triangulated_value) - Val(d.price)) * 100)
                              \div Val(triangulated_value)
                  IN  Some(ScreenResult(ticker, Val(d.price), Val(triangulated_value),
                               margin_of_safety, d.metrics,
                               _calculate_graham_score(d.metrics, margin_of_safety)))

(***************************************************************************)
(* The tickers of the screening run                                        *)
(***************************************************************************)
GoodMetrics ==
    FinancialMetrics(Some(250), Some(30), Some(8), 10, Some(1200), Some(120), Some(2000))

StrongMetrics ==
    FinancialMetrics(Some(300), Some(20), Some(10), 10, Some(1000), Some(100), Some(2000))

BadMetrics ==
    FinancialMetrics(Some(120), Some(80), Some(-5), 0, Some(2500), Some(200), Some(1000))

\* The latest balance sheet reports no totalCurrentLiabilities, so
\* current_ratio stays None (valuations.py:103), while NCAV per share is
\* computed (valuations.py:125-131) and the asset-based valuation exists
NoCurrentRatioMetrics ==
    FinancialMetrics(None, Some(30), Some(8), 10, Some(1200), Some(120), Some(2000))

QualifyingData ==
    TickerData("present", Some(5000), <<10, 10, 10>>, Some(2000), "ok",
        <<ValuationResult("EPV", 5000, "high")>>, GoodMetrics)

StrongData ==
    TickerData("present", Some(9000), <<7, 7, 7>>, Some(2000), "ok",
        <<ValuationResult("Asset", 8000, "high"), ValuationResult("DCF", 4000, "low")>>,
        StrongMetrics)

SmallCapData ==
    TickerData("present", Some(500), <<7, 7, 7>>, Some(2000), "ok",
        <<ValuationResult("Asset", 6000, "medium")>>, GoodMetrics)

RejectedData ==
    TickerData("present", Some(5000), <<5, 5, 5>>, Some(2000), "ok",
        <<ValuationResult("EPV", 2500, "medium")>>, BadMetrics)

NoProfileData ==
    TickerData("absent", None, <<0, 0, 0>>, None, "ok", <<>>, EmptyMetrics)

ProfileErrorData ==
    TickerData("error", None, <<0, 0, 0>>, None, "ok", <<>>, EmptyMetrics)

FewStatementsData ==
    TickerData("present", Some(5000), <<7, 7, 0>>, Some(2000), "ok",
        <<ValuationResult("EPV", 5000, "high")>>, GoodMetrics)

NoPriceData ==
    TickerData("present", Some(5000), <<7, 7, 7>>, None, "ok",
        <<ValuationResult("EPV", 5000, "high")>>, GoodMetrics)

ZeroPriceData ==
    TickerData("present", Some(5000), <<7, 7, 7>>, Some(0), "ok",
        <<ValuationResult("EPV", 5000, "high")>>, GoodMetrics)

NegativePriceData ==
    TickerData("present", Some(5000), <<7, 7, 7>>, Some(-2000), "ok",
        <<ValuationResult("EPV", 5000, "high")>>, GoodMetrics)

ValuatorErrorData ==
    TickerData("present", Some(5000), <<7, 7, 7>>, Some(2000), "error", <<>>, EmptyMetrics)

NoValuationsData ==
    TickerData("present", Some(5000), <<7, 7, 7>>, Some(2000), "ok", <<>>, EmptyMetrics)

NoCurrentRatioData ==
    TickerData("present", Some(5000), <<7, 7, 7>>, Some(2000), "ok",
        <<ValuationResult("Asset", 5000, "high")>>, NoCurrentRatioMetrics)

TickerPool ==
    { QualifyingData, StrongData, SmallCapData, RejectedData, NoProfileData,
      ProfileErrorData, FewStatementsData, NoPriceData, ZeroPriceData,
      NegativePriceData, ValuatorErrorData,
      NoValuationsData, NoCurrentRatioData }

\* run_screen, line 66
BatchSize == 10

MaxTickers == 3

\* Universes longer than one batch: qualifying tickers and one other ticker,
\* first or last
LongUniverses ==
    { [k \in 1..(BatchSize + 1) |-> IF k = at THEN d ELSE QualifyingData] :
        at \in {1, BatchSize + 1},
        d \in {StrongData, NoProfileData, NoCurrentRatioData} }

Universes == SeqsUpTo(TickerPool, MaxTickers) \cup LongUniverses

(***************************************************************************)
(* run_screen (src/screener.py:54-94) and _screen_batch (132-145)          *)
(***************************************************************************)
Running == [done |-> FALSE, result |-> None]

Finished(result) == [done |-> TRUE, result |-> result]

\* mutation of line 70: the batch runs to the end of the universe
BatchToTheEnd(i) == (i + 1)..Len(universe)

\* tickers[i:i + batch_size], as 1-based positions of the universe
BatchOf(i) == (i + 1)..Min(i + BatchSize, Len(universe))

InitScreen ==
    /\ IdleProvider
    /\ config \in ScreenConfigs
    /\ inputs = <<>>
    /\ provider \in Universes
    /\ universe = [k \in 1..Len(provider) |-> k]
    /\ results = <<>>
    /\ outcome = "pending"
    /\ qualified = <<>>
    /\ reasons = <<>>
    /\ pc = "start"
    /\ batch_start = 0
    /\ tasks = <<>>
    /\ top_stocks = <<>>
    /\ IdleRank
    /\ IdleValuator

\* lines 58-67
GetUniverse ==
    /\ pc = "start"
    /\ pc' = IF universe = <<>> THEN "done" ELSE "batch"
    /\ UNCHANGED <<provider_vars, exit_code, config, inputs, results, outcome, qualified, reasons,
                   universe, provider, batch_start, tasks, top_stocks,
                   rank_vars, valuator_vars>>

\* lines 69-73 and 135-136: one task per ticker of the batch
StartBatch ==
    /\ pc = "batch"
    /\ tasks' = [k \in 1..Cardinality(BatchOf(batch_start)) |-> Running]
    /\ pc' = "gather"
    /\ UNCHANGED <<provider_vars, exit_code, config, inputs, results, outcome, qualified, reasons,
                   universe, provider, batch_start, top_stocks,
                   rank_vars, valuator_vars>>

\* one task of the batch runs to its end
ScreenSingleStock(k) ==
    /\ pc = "gather"
    /\ ~tasks[k].done
    /\ tasks' = [tasks EXCEPT ![k] =
                    Finished(_screen_single_stock(universe[batch_start + k],
                                                  provider[batch_start + k], config))]
    /\ UNCHANGED <<provider_vars, exit_code, config, inputs, results, outcome, qualified, reasons,
                   universe, provider, pc, batch_start, top_stocks,
                   rank_vars, valuator_vars>>

\* lines 138-145: the ScreenResults among the gathered results, in task order
RECURSIVE ValidResults(_)
ValidResults(ts) ==
    IF ts = <<>> THEN <<>>
    ELSE (IF Head(ts).result # None THEN <<Val(Head(ts).result)>> ELSE <<>>)
            \o ValidResults(Tail(ts))

\* gather returns, lines 138-145 and 74-78
GatherBatch ==
    /\ pc = "gather"
    /\ \A k \in DOMAIN tasks : tasks[k].done
    /\ results' = results \o ValidResults(tasks)
    /\ batch_start' = batch_start + BatchSize
    /\ pc' = IF batch_start + BatchSize < Len(universe) THEN "batch" ELSE "filter"
    /\ tasks' = <<>>
    /\ UNCHANGED <<provider_vars, exit_code, config, inputs, outcome, qualified, reasons,
                   universe, provider, top_stocks,
                   rank_vars, valuator_vars>>

\* mutation of line 85: the ranked list is not cut
TopStocksUncut(ranked_stocks, top_count) ==
    ranked_stocks

\* line 85: ranked_stocks[:top_count] for a top_count above 0
TopStocks(ranked_stocks, top_count) ==
    SubSeq(ranked_stocks, 1, Min(top_count, Len(ranked_stocks)))

\* lines 80-94; an exception of _apply_graham_filters is caught nowhere in
\* run_screen and ends it
FilterAndRank ==
    /\ pc = "filter"
    /\ LET out == _apply_graham_filters(results, config)
           ranked_stocks == _rank_stocks(out.qualified)
       IN  /\ outcome' = IF out.raised THEN "raised" ELSE "returned"
           /\ reasons' = out.reasons
           /\ qualified' = out.qualified
           /\ top_stocks' = IF out.raised THEN <<>>
                            ELSE TopStocks(ranked_stocks, config.top_count)
           /\ pc' = IF out.raised THEN "raised" ELSE "done"
    /\ UNCHANGED <<provider_vars, exit_code, config, inputs, results, universe, provider, batch_start, tasks,
                   rank_vars, valuator_vars>>

NextScreen ==
    \/ GetUniverse
    \/ StartBatch
    \/ \E k \in DOMAIN tasks : ScreenSingleStock(k)
    \/ GatherBatch
    \/ FilterAndRank

SpecScreen == InitScreen /\ [][NextScreen]_vars

(***************************************************************************)
(* main (src/graham_scan.py:26-105) and DataProviderFactory.create         *)
(* (src/data_providers.py:300-316)                                         *)
(***************************************************************************)
\* what create returns or raises
create(cfg) ==
    IF cfg.data_provider = "alpha_vantage" THEN "AlphaVantageProvider"
    ELSE IF cfg.data_provider = "fmp" THEN "FinancialModelingPrepProvider"
    ELSE IF cfg.data_provider = "tiingo" THEN "NotImplementedError"
    ELSE IF cfg.data_provider = "polygon" THEN "NotImplementedError"
    ELSE "ValueError"

CreateRaises(cfg) == create(cfg) \in {"NotImplementedError", "ValueError"}

\* graham_scan.py:49-52: the choices of --data_provider
ProviderChoices == {"alpha_vantage", "fmp", "tiingo", "polygon"}

MainConfigs ==
    { [c EXCEPT !.data_provider = p] : c \in Configs, p \in ProviderChoices }

MaxMainTickers == 2

\* what the provider of the run answers, per ticker of the universe; the
\* FinancialModelingPrepProvider has no profile, statement or price of any
\* ticker (data_providers.py:280-293)
ProviderAnswers(cfg) ==
    IF create(cfg) = "AlphaVantageProvider" THEN SeqsUpTo(TickerPool, MaxMainTickers)
    ELSE IF create(cfg) = "FinancialModelingPrepProvider"
    THEN SeqsUpTo({NoProfileData}, MaxMainTickers)
    ELSE { <<>> }

InitMain ==
    /\ config \in MainConfigs
    /\ inputs = <<>>
    /\ provider \in ProviderAnswers(config)
    /\ universe = [k \in 1..Len(provider) |-> k]
    /\ results = <<>>
    /\ outcome = "pending"
    /\ qualified = <<>>
    /\ reasons = <<>>
    /\ pc = "main"
    /\ batch_start = 0
    /\ tasks = <<>>
    /\ top_stocks = <<>>
    /\ IdleRank
    /\ IdleValuator
    /\ IdleProvider

\* graham_scan.py:89-90 and 100-102: create raises and main returns 1, or the
\* screener is built
CreateProvider ==
    /\ pc = "main"
    /\ pc' = IF CreateRaises(config) THEN "exit" ELSE "start"
    /\ exit_code' = IF CreateRaises(config) THEN Some(1) ELSE exit_code
    /\ UNCHANGED <<filter_vars, batch_vars, rank_vars, valuator_vars, provider_vars>>

\* graham_scan.py:92-104: run_screen returned, or raised into the handler of
\* line 100
MainReturns ==
    /\ pc \in {"done", "raised"}
    /\ exit_code' = Some(IF pc = "raised" THEN 1 ELSE 0)
    /\ pc' = "exit"
    /\ UNCHANGED <<filter_vars, batch_vars, rank_vars, valuator_vars, provider_vars>>

NextMain ==
    \/ CreateProvider
    \/ GetUniverse
    \/ StartBatch
    \/ \E k \in DOMAIN tasks : ScreenSingleStock(k)
    \/ GatherBatch
    \/ FilterAndRank
    \/ MainReturns

SpecMain == InitMain /\ [][NextMain]_vars

(***************************************************************************)
(* APIKeyManager (src/api_keys.py:7-33) and                                *)
(* AlphaVantageProvider._make_request (src/data_providers.py:92-130)       *)
(*                                                                         *)
(* A key of the manager is named by its index in keys; the key given in    *)
(* the configuration is <<"configured">>.                                  *)
(***************************************************************************)
\* the shared manager is built on a list of keys (api_keys.py:37-57); what
\* matters of the list is its length, and lengths of 1..MaxKeys make the index
\* wrap around within the retries of a request
MaxKeys == 3

KeyCounts == 1..MaxKeys

\* api_keys.py:10-12
APIKeyManager(keys) == [keys |-> keys, current_index |-> 0]

\* api_keys.py:14-18, for a manager with at least one key
get_current_key(km) == <<"manager", km.current_index>>

\* mutation of api_keys.py:23: the index is not reduced modulo len(keys)
RotateWithoutWrap(km) ==
    IF km.keys > 1
    THEN [km EXCEPT !.current_index = km.current_index + 1]
    ELSE km

\* api_keys.py:20-23
rotate_key(km) ==
    IF km.keys > 1
    THEN [km EXCEPT !.current_index = (km.current_index + 1) % km.keys]
    ELSE km

\* config.api_key is truthy: a string that is not empty
KeyConfigured(cfg) == cfg.api_key # None /\ Val(cfg.api_key) # ""

\* data_providers.py:73-79
AlphaVantageProvider(cfg, km) ==
    [ api_key       |-> IF KeyConfigured(cfg) THEN <<"configured">>
                        ELSE get_current_key(km),
      key_manager   |-> ~KeyConfigured(cfg),
      request_count |-> 0 ]

\* runs with and without a configured key, live and dry
ProviderConfigs ==
    { [DefaultConfig EXCEPT !.api_key = k, !.dry_run = d] :
        k \in {None, Some("CONFIGURED")}, d \in BOOLEAN }

\* what a request can be answered with: data, the rate-limit note, an error
\* message, a status other than 200, or an exception of the session
Responses == {"data", "rate_limited", "error_message", "http_error", "exception"}

MaxRequests == 2

\* a call of _make_request(params, retry_count = 0) that has not run yet
NewRequest ==
    [ at |-> "called", retry_count |-> 0, attempts |-> 0,
      response |-> "none", result |-> "pending" ]

InitRequest ==
    /\ config \in ProviderConfigs
    /\ inputs = <<>>
    /\ results = <<>>
    /\ outcome = "pending"
    /\ qualified = <<>>
    /\ reasons = <<>>
    /\ universe = <<>>
    /\ provider = <<>>
    /\ batch_start = 0
    /\ tasks = <<>>
    /\ top_stocks = <<>>
    /\ IdleRank
    /\ IdleValuator
    /\ pc = "requests"
    /\ exit_code = None
    /\ key_manager \in { APIKeyManager(n) : n \in KeyCounts }
    /\ alpha_vantage = AlphaVantageProvider(config, key_manager)
    /\ requests \in { [r \in 1..n |-> NewRequest] : n \in 1..MaxRequests }

\* lines 93-105: the dry run returns None, otherwise the request is sent
MakeRequest(r) ==
    /\ pc = "requests"
    /\ requests[r].at = "called"
    /\ requests' = [requests EXCEPT ![r] =
            IF config.dry_run
            THEN [@ EXCEPT !.at = "returned", !.result = "None"]
            ELSE [@ EXCEPT !.at = "awaiting", !.attempts = @ + 1]]
    /\ UNCHANGED <<filter_vars, screen_vars, rank_vars, valuator_vars,
                   key_manager, alpha_vantage, exit_code>>

\* lines 99-130: the response arrives
Response(r, response) ==
    /\ pc = "requests"
    /\ requests[r].at = "awaiting"
    /\ IF response = "rate_limited"
       THEN IF alpha_vantage.key_manager /\ requests[r].retry_count < 3
            THEN /\ key_manager' = rotate_key(key_manager)
                 /\ alpha_vantage' =
                        [alpha_vantage EXCEPT !.api_key = get_current_key(key_manager')]
                 /\ requests' = [requests EXCEPT ![r] =
                        [@ EXCEPT !.at = "sleeping", !.response = response]]
            ELSE /\ requests' = [requests EXCEPT ![r] =
                        [@ EXCEPT !.at = "returned", !.response = response,
                                  !.result = "None"]]
                 /\ UNCHANGED <<key_manager, alpha_vantage>>
       ELSE IF response = "data"
       THEN /\ alpha_vantage' = [alpha_vantage EXCEPT !.request_count = @ + 1]
            /\ requests' = [requests EXCEPT ![r] =
                   [@ EXCEPT !.at = "returned", !.response = response,
                             !.result = "data"]]
            /\ UNCHANGED key_manager
       ELSE /\ requests' = [requests EXCEPT ![r] =
                   [@ EXCEPT !.at = "returned", !.response = response,
                             !.result = "None"]]
            /\ UNCHANGED <<key_manager, alpha_vantage>>
    /\ UNCHANGED <<filter_vars, screen_vars, rank_vars, valuator_vars, exit_code>>

\* lines 112-113: the sleep ends and _make_request calls itself with
\* retry_count + 1
Retry(r) ==
    /\ pc = "requests"
    /\ requests[r].at = "sleeping"
    /\ requests' = [requests EXCEPT ![r] =
            [@ EXCEPT !.at = "called", !.retry_count = @ + 1]]
    /\ UNCHANGED <<filter_vars, screen_vars, rank_vars, valuator_vars,
                   key_manager, alpha_vantage, exit_code>>

NextRequest ==
    \/ \E r \in DOMAIN requests : MakeRequest(r)
    \/ \E r \in DOMAIN requests, response \in Responses : Response(r, response)
    \/ \E r \in DOMAIN requests : Retry(r)

SpecRequest == InitRequest /\ [][NextRequest]_vars

\* the event loop runs every coroutine that can run, and every request sent
\* is answered or fails
SpecRequestFair == SpecRequest /\ WF_vars(NextRequest)

(***************************************************************************)
(* _rank_stocks called on a list of qualifying candidates                  *)
(***************************************************************************)
RankScores == {80, 85, 90}

RankMargins == {60, 70, 80}

MaxStocks == 3

\* the i-th candidate of a list; the ticker stands for the object's identity
RankTicker(i) == <<"S1", "S2", "S3", "S4", "S5">>[i]

\* lists of up to MaxStocks ScreenResults, rank 0 as constructed
StockLists ==
    UNION { { [i \in 1..n |-> ScreenResult(RankTicker(i), 2000, 3000, k[i][2],
                                            GoodMetrics, k[i][1])]
              : k \in [1..n -> RankScores \X RankMargins] }
            : n \in 0..MaxStocks }

\* the 1-based position of the object x in the list s
PositionIn(s, x) == CHOOSE i \in DOMAIN s : s[i].ticker = x.ticker

\* lines 333-334 assign rank on the objects themselves, which the list
\* passed in holds too
RankedInPlace(input, sorted_stocks) ==
    [j \in DOMAIN input |->
        [input[j] EXCEPT !.rank = sorted_stocks[PositionIn(sorted_stocks, input[j])].rank]]

InitRank ==
    /\ IdleProvider
    /\ config = DefaultConfig
    /\ inputs = <<>>
    /\ results = <<>>
    /\ outcome = "pending"
    /\ qualified = <<>>
    /\ reasons = <<>>
    /\ universe = <<>>
    /\ provider = <<>>
    /\ batch_start = 0
    /\ tasks = <<>>
    /\ top_stocks = <<>>
    /\ IdleValuator
    /\ pc = "rank"
    /\ qualified_stocks \in StockLists
    /\ ranked = <<>>

RankStocks ==
    /\ pc = "rank"
    /\ ranked' = _rank_stocks(qualified_stocks)
    /\ qualified_stocks' = RankedInPlace(qualified_stocks, _rank_stocks(qualified_stocks))
    /\ pc' = "ranked"
    /\ UNCHANGED <<provider_vars, exit_code, filter_vars, batch_vars, valuator_vars>>

\* the same list is ranked a second time
RankStocksAgain ==
    /\ pc = "ranked"
    /\ ranked' = _rank_stocks(qualified_stocks)
    /\ qualified_stocks' = RankedInPlace(qualified_stocks, _rank_stocks(qualified_stocks))
    /\ pc' = "reranked"
    /\ UNCHANGED <<provider_vars, exit_code, filter_vars, batch_vars, valuator_vars>>

NextRank ==
    \/ RankStocks
    \/ RankStocksAgain

SpecRank == InitRank /\ [][NextRank]_vars

(***************************************************************************)
(* triangulate_value called on a list of estimates                         *)
(***************************************************************************)
\* intrinsic values in cents (16.80, 2.00, 25.00 are the test's)
EstimateValues == {1680, 200, 2500}

\* "speculative" stands for any string that is not a key of `weights`
Confidences == {"high", "medium", "low", "speculative"}

MaxEstimates == 3

EstimateMethod(i) == <<"EPV", "Asset", "DCF", "Other", "Extra">>[i]

EstimateLists ==
    UNION { { [i \in 1..n |-> ValuationResult(EstimateMethod(i), k[i][1], k[i][2])]
              : k \in [1..n -> EstimateValues \X Confidences] }
            : n \in 0..MaxEstimates }

InitTriangulate ==
    /\ IdleProvider
    /\ config = DefaultConfig
    /\ inputs = <<>>
    /\ results = <<>>
    /\ outcome = "pending"
    /\ qualified = <<>>
    /\ reasons = <<>>
    /\ universe = <<>>
    /\ provider = <<>>
    /\ batch_start = 0
    /\ tasks = <<>>
    /\ top_stocks = <<>>
    /\ IdleRank
    /\ statements = <<>>
    /\ current_price = 2000
    /\ snapshot = <<>>
    /\ estimates \in EstimateLists
    /\ triangulated = <<>>
    /\ pc = "triangulate"

TriangulateValue ==
    /\ pc = "triangulate"
    /\ triangulated' = triangulate_value(estimates)
    /\ pc' = "triangulated"
    /\ UNCHANGED <<provider_vars, exit_code, filter_vars, batch_vars, rank_vars,
                   statements, current_price, snapshot, estimates>>

\* a caller drops the result and hands the list over again
TriangulateAgain ==
    /\ pc = "triangulated"
    /\ triangulated' = <<>>
    /\ pc' = "triangulate"
    /\ UNCHANGED <<provider_vars, exit_code, filter_vars, batch_vars, rank_vars,
                   statements, current_price, snapshot, estimates>>

NextTriangulate ==
    \/ TriangulateValue
    \/ TriangulateAgain

SpecTriangulate == InitTriangulate /\ [][NextTriangulate]_vars

(***************************************************************************)
(* GrahamValuator (src/valuations.py)                                      *)
(*                                                                         *)
(* Units.  Line items of a statement: millions of dollars; shares          *)
(* outstanding: millions.  Per-share values and prices: cents.  Ratios and *)
(* fractions: hundredths.  owner_earnings: hundredths of a million, so     *)
(* that the multipliers 1.2, 1.1 and 0.8 keep it an integer.               *)
(*                                                                         *)
(* A raw value of a statement's `data` dict is one of                      *)
(*   <<"missing">>  the key is not in the dict                             *)
(*   <<"null">>     None                                                   *)
(*   <<"empty">>    ''                                                     *)
(*   <<"text">>     a string float() rejects, such as 'None' or 'abc'      *)
(*   <<"num", n>>   a number or a numeric string                           *)
(***************************************************************************)
Missing == <<"missing">>

Null == <<"null">>

Empty == <<"empty">>

Text == <<"text">>

Num(n) == <<"num", n>>

\* data.get(key): a missing key reads as None
Get(data, key) == IF data[key] = Missing THEN Null ELSE data[key]

\* data.get(key, 0): a missing key reads as 0, a key holding None as None
GetOr0(data, key) == IF data[key] = Missing THEN Num(0) ELSE data[key]

\* lines 456-463: None and '' give None, float() failing gives None
_safe_float(value) ==
    IF value = Null \/ value = Empty THEN None
    ELSE IF value[1] = "num" THEN Some(value[2])
    ELSE None

\* a float or None handed to _safe_float again
AsRaw(x) == IF x = None THEN Null ELSE Num(Val(x))

Abs(n) == IF n < 0 THEN -n ELSE n

Max(S) == CHOOSE x \in S : \A y \in S : y <= x

FinancialStatement(statement_type, year, data) ==
    [ statement_type |-> statement_type, year |-> year, data |-> data ]

\* line 84: FinancialMetrics(ticker=profile.ticker)
NewFinancialMetrics(ticker) ==
    [ ticker               |-> ticker,
      current_ratio        |-> None,
      debt_to_equity       |-> None,
      roe                  |-> None,
      earnings_growth      |-> None,
      dividend_years       |-> 0,
      pe_ratio             |-> None,
      pb_ratio             |-> None,
      book_value_per_share |-> None,
      earnings_per_share   |-> None,
      owner_earnings       |-> None,
      ncav_per_share       |-> None,
      tangible_book_value  |-> None ]

\* lines 87-91: by_type[statement_type] as the set of its years ...
YearsOf(stmts, statement_type) ==
    { stmts[i].year : i \in { j \in DOMAIN stmts : stmts[j].statement_type = statement_type } }

\* mutation of lines 99, 145, 180: the newest statement of the kind, of
\* whatever year
ByTypeNewest(stmts, statement_type, year) ==
    LET idx == { i \in DOMAIN stmts : stmts[i].statement_type = statement_type }
    IN  IF idx = {} THEN None
        ELSE LET newest == Max({ stmts[i].year : i \in idx })
             IN  Some(stmts[Max({ i \in idx : stmts[i].year = newest })].data)

\* ... and by_type.get(statement_type, {}).get(year): the data of the last
\* statement of that kind and year in the list, None if there is none
ByType(stmts, statement_type, year) ==
    LET idx == { i \in DOMAIN stmts :
                    /\ stmts[i].statement_type = statement_type
                    /\ stmts[i].year = year }
    IN  IF idx = {} THEN None ELSE Some(stmts[Max(idx)].data)

\* line 94
LatestYear(stmts) ==
    IF stmts = <<>> THEN None ELSE Some(Max({ stmts[i].year : i \in DOMAIN stmts }))

\* lines 177-209, in hundredths of a million
_calculate_owner_earnings(stmts, latest_year, cfg) ==
    LET cash_flow_latest == ByType(stmts, "cash_flow", latest_year)
    IN  IF cash_flow_latest = None THEN None
        ELSE
        LET cf == Val(cash_flow_latest)
            operating_cf == _safe_float(Get(cf, "operatingCashflow"))
            capex == _safe_float(GetOr0(cf, "capitalExpenditures"))
            income_latest == ByType(stmts, "income", latest_year)
            depreciation ==
                IF income_latest = None THEN None
                ELSE _safe_float(GetOr0(Val(income_latest), "depreciationAndAmortization"))
            owner_earnings ==
                IF Truthy(capex)
                THEN Val(operating_cf) * 100 - Abs(Val(capex)) * cfg.capex_multiplier
                ELSE IF income_latest # None /\ Truthy(depreciation)
                THEN Val(operating_cf) * 100
                        - Val(depreciation) * cfg.depreciation_conservatism
                ELSE Val(operating_cf) * 80
        IN  IF ~Truthy(operating_cf) THEN None
            ELSE IF owner_earnings > 0 THEN Some(owner_earnings) ELSE None

RECURSIVE Power(_, _)
Power(b, e) == IF e = 0 THEN 1 ELSE b * Power(b, e - 1)

\* (end / start) ** (1 / span) - 1 in hundredths, rounded down: the largest
\* g with (1 + g/100) ** span <= end / start.  Growth beyond +100% a year
\* reads as 100.
Cagr(start_earnings, end_earnings, years_span) ==
    Max({ g \in (-100)..100 :
            start_earnings * Power(100 + g, years_span)
                <= end_earnings * Power(100, years_span) })

\* mutation of lines 221-226: only the first and the last year are read
GrowthOfEndpoints(stmts) ==
    LET years == YearsOf(stmts, "income")
        net_income(y) == _safe_float(Get(Val(ByType(stmts, "income", y)), "netIncome"))
        first == CHOOSE y \in years : \A z \in years : y <= z
    IN  IF Cardinality(years) < 3 THEN None
        ELSE IF \E y \in {first, Max(years)} :
                    ~(Truthy(net_income(y)) /\ Val(net_income(y)) > 0) THEN None
        ELSE Some(Cagr(Val(net_income(first)), Val(net_income(Max(years))),
                       Cardinality(years) - 1))

\* lines 211-240
_calculate_earnings_growth(stmts) ==
    LET years == YearsOf(stmts, "income")
        net_income(y) == _safe_float(Get(Val(ByType(stmts, "income", y)), "netIncome"))
        first == CHOOSE y \in years : \A z \in years : y <= z
    IN  IF Cardinality(years) < 3 THEN None
        ELSE IF \E y \in years :
                    ~(Truthy(net_income(y)) /\ Val(net_income(y)) > 0) THEN None
        ELSE Some(Cagr(Val(net_income(first)), Val(net_income(Max(years))),
                       Cardinality(years) - 1))

\* lines 242-253
_count_dividend_years(stmts) ==
    Cardinality({ y \in YearsOf(stmts, "cash_flow") :
        LET dividends == _safe_float(GetOr0(Val(ByType(stmts, "cash_flow", y)),
                                            "dividendsPaid"))
        IN  Truthy(dividends) /\ Val(dividends) < 0 })

\* lines 108-111: None + float raises TypeError
DebtRaises(balance) ==
    \/ _safe_float(GetOr0(balance, "shortTermDebt")) = None
    \/ _safe_float(GetOr0(balance, "longTermDebt")) = None

\* lines 98-143, the fields read from the latest balance statement
BalanceMetrics(m, b) ==
    LET current_assets == _safe_float(Get(b, "totalCurrentAssets"))
        current_liabilities == _safe_float(Get(b, "totalCurrentLiabilities"))
        total_debt == Val(_safe_float(GetOr0(b, "shortTermDebt")))
                        + Val(_safe_float(GetOr0(b, "longTermDebt")))
        total_equity == _safe_float(Get(b, "totalStockholderEquity"))
        shares == _safe_float(Get(b, "commonStockSharesOutstanding"))
        ncav_assets == _safe_float(GetOr0(b, "totalCurrentAssets"))
        total_liabilities == _safe_float(GetOr0(b, "totalLiabilities"))
        book_value == _safe_float(GetOr0(b, "totalStockholderEquity"))
        intangibles == _safe_float(GetOr0(b, "intangibleAssets"))
        goodwill == _safe_float(GetOr0(b, "goodwill"))
        or0(x) == IF Truthy(x) THEN Val(x) ELSE 0
        shares_ok == Truthy(shares) /\ Val(shares) > 0
    IN  [ m EXCEPT
            !.current_ratio =
                IF /\ Truthy(current_assets)
                   /\ Truthy(current_liabilities)
                   /\ Val(current_liabilities) > 0
                THEN Some((Val(current_assets) * 100) \div Val(current_liabilities))
                ELSE None,
            !.debt_to_equity =
                IF Truthy(total_equity) /\ Val(total_equity) > 0
                THEN Some((total_debt * 100) \div Val(total_equity))
                ELSE None,
            !.book_value_per_share =
                IF Truthy(total_equity) /\ shares_ok
                THEN Some((Val(total_equity) * 100) \div Val(shares))
                ELSE None,
            !.ncav_per_share =
                IF Truthy(ncav_assets) /\ total_liabilities # None /\ shares_ok
                THEN Some(((Val(ncav_assets) - Val(total_liabilities)) * 100)
                            \div Val(shares))
                ELSE None,
            !.tangible_book_value =
                IF book_value # None /\ shares_ok
                THEN Some(((Val(book_value) - or0(intangibles) - or0(goodwill)) * 100)
                            \div Val(shares))
                ELSE None ]

\* lines 144-167, the fields that need the latest income statement too
IncomeMetrics(m, b, inc, price) ==
    LET net_income == _safe_float(Get(inc, "netIncome"))
        shares == _safe_float(Get(b, "commonStockSharesOutstanding"))
        equity == _safe_float(Get(b, "totalStockholderEquity"))
        eps == IF Truthy(net_income) /\ Truthy(shares) /\ Val(shares) > 0
               THEN Some((Val(net_income) * 100) \div Val(shares))
               ELSE None
    IN  [ m EXCEPT
            !.earnings_per_share = eps,
            !.pe_ratio = IF eps # None /\ Val(eps) > 0
                         THEN Some((price * 100) \div Val(eps))
                         ELSE None,
            !.roe = IF Truthy(net_income) /\ Truthy(equity) /\ Val(equity) > 0
                    THEN Some((Val(net_income) * 100) \div Val(equity))
                    ELSE None ]

\* lines 155-157
PbMetric(m, price) ==
    [ m EXCEPT !.pb_ratio =
        IF Truthy(m.book_value_per_share) /\ Val(m.book_value_per_share) > 0
        THEN Some((price * 100) \div Val(m.book_value_per_share))
        ELSE None ]

\* lines 76-175.  raised: the TypeError of lines 108-111 left the function.
_calculate_financial_metrics(stmts, ticker, price, cfg) ==
    LET fresh == NewFinancialMetrics(ticker)
        latest_year == LatestYear(stmts)
    IN  IF ~Truthy(latest_year) THEN [raised |-> FALSE, metrics |-> fresh]
        ELSE
        LET balance_latest == ByType(stmts, "balance", Val(latest_year))
            income_latest == ByType(stmts, "income", Val(latest_year))
            m1 == IF balance_latest # None
                  THEN BalanceMetrics(fresh, Val(balance_latest)) ELSE fresh
            m2 == IF income_latest # None /\ balance_latest # None
                  THEN IncomeMetrics(m1, Val(balance_latest), Val(income_latest), price)
                  ELSE m1
            m3 == PbMetric(m2, price)
        IN  IF balance_latest # None /\ DebtRaises(Val(balance_latest))
            THEN [raised |-> TRUE, metrics |-> fresh]
            ELSE [raised |-> FALSE,
                  metrics |-> [ m3 EXCEPT
                      !.owner_earnings =
                          _calculate_owner_earnings(stmts, Val(latest_year), cfg),
                      !.earnings_growth = _calculate_earnings_growth(stmts),
                      !.dividend_years = _count_dividend_years(stmts) ]]

(***************************************************************************)
(* The estimates (src/valuations.py:255-435)                               *)
(***************************************************************************)
\* a ValuationResult with the fields the valuation methods fill in
ValuationResultOf(method, intrinsic_value, price, margin_of_safety, confidence, assumptions, warnings) ==
    [ method           |-> method,
      intrinsic_value  |-> intrinsic_value,
      current_price    |-> price,
      margin_of_safety |-> margin_of_safety,
      confidence       |-> confidence,
      assumptions      |-> assumptions,
      warnings         |-> warnings ]

\* mutation of lines 270-276 and 404-410: the shares of the latest year's
\* balance statement
SharesOfLatestYear(stmts) ==
    IF stmts = <<>> THEN None
    ELSE LET stmt == ByType(stmts, "balance", Val(LatestYear(stmts)))
         IN  IF stmt = None THEN None
             ELSE _safe_float(Get(Val(stmt), "commonStockSharesOutstanding"))

\* lines 270-276 and 404-410: the shares of the first balance statement, in
\* list order, whose commonStockSharesOutstanding is truthy
RECURSIVE SharesOutstanding(_)
SharesOutstanding(stmts) ==
    IF stmts = <<>> THEN None
    ELSE LET shares == _safe_float(Get(Head(stmts).data, "commonStockSharesOutstanding"))
         IN  IF Head(stmts).statement_type = "balance" /\ Truthy(shares)
             THEN shares
             ELSE SharesOutstanding(Tail(stmts))

\* (intrinsic_value - current_price) / intrinsic_value if intrinsic_value > 0
\* else -1, in hundredths
MarginOfSafety(intrinsic_value, price) ==
    IF intrinsic_value > 0
    THEN ((intrinsic_value - price) * 100) \div intrinsic_value
    ELSE -100

\* lines 293-302
EpvWarnings(margin_of_safety, m) ==
    (IF margin_of_safety < 30 THEN <<"Margin of safety below 30%">> ELSE <<>>)
        \o (IF ~Truthy(m.current_ratio) \/ Val(m.current_ratio) < 200
            THEN <<"Current ratio below 2.0">> ELSE <<>>)

\* mutation of lines 300-302: the second test sets the confidence either way
EpvConfidenceLastTestWins(margin_of_safety, m) ==
    IF ~Truthy(m.current_ratio) \/ Val(m.current_ratio) < 200
    THEN "medium" ELSE "high"

\* lines 294-302
EpvConfidence(margin_of_safety, m) ==
    IF margin_of_safety < 30 THEN "medium"
    ELSE IF ~Truthy(m.current_ratio) \/ Val(m.current_ratio) < 200 THEN "medium"
    ELSE "high"

\* lines 255-312; owner_earnings / shares / 0.10, in cents
_calculate_epv(stmts, price, m) ==
    IF ~Truthy(m.owner_earnings) \/ ~Truthy(m.book_value_per_share) THEN None
    ELSE LET shares_outstanding == SharesOutstanding(stmts)
         IN  IF ~Truthy(shares_outstanding) THEN None
             ELSE
             LET epv_per_share == (Val(m.owner_earnings) * 10) \div Val(shares_outstanding)
                 margin_of_safety == MarginOfSafety(epv_per_share, price)
             IN  Some(ValuationResultOf("Earnings Power Value (EPV)",
                        epv_per_share, price, margin_of_safety,
                        EpvConfidence(margin_of_safety, m),
                        <<"10% discount rate used", "No growth assumed (conservative)",
                          "Owner earnings", "Capex multiplier">>,
                        EpvWarnings(margin_of_safety, m)))

\* lines 327 and 333: which figure the estimate rests on
AssetBasis(m) ==
    IF Truthy(m.ncav_per_share) /\ Val(m.ncav_per_share) > 0 THEN "ncav"
    ELSE IF Truthy(m.tangible_book_value) /\ Val(m.tangible_book_value) > 0 THEN "tbv"
    ELSE "none"

\* mutation of line 324: confidence starts at 'high'
AssetConfidenceFromHigh(basis, margin_of_safety) ==
    IF margin_of_safety < 50 THEN "low" ELSE "high"

\* lines 324, 332, 344-346
AssetConfidence(basis, margin_of_safety) ==
    IF margin_of_safety < 50 THEN "low"
    ELSE IF basis = "ncav" THEN "high"
    ELSE "medium"

\* lines 314-356
_calculate_asset_value(stmts, price, m) ==
    LET basis == AssetBasis(m)
        intrinsic_value ==
            IF basis = "ncav" THEN Val(m.ncav_per_share)
            ELSE (Val(m.tangible_book_value) * 8) \div 10
        margin_of_safety == MarginOfSafety(intrinsic_value, price)
    IN  IF basis = "none" THEN None
        ELSE Some(ValuationResultOf("Asset-Based Valuation",
                    intrinsic_value, price, margin_of_safety,
                    AssetConfidence(basis, margin_of_safety),
                    IF basis = "ncav"
                    THEN <<"Using Net Current Asset Value (NCAV)",
                           "All current assets at full value",
                           "All liabilities at face value">>
                    ELSE <<"Using Tangible Book Value with 20% haircut",
                           "Excludes goodwill and intangibles">>,
                    (IF basis = "tbv"
                     THEN <<"Assuming 20% haircut on tangible assets">> ELSE <<>>)
                      \o (IF margin_of_safety < 50
                          THEN <<"Graham prefers 50%+ margin for asset plays">>
                          ELSE <<>>)))

(***************************************************************************)
(* The conservative DCF (src/valuations.py:358-435)                        *)
(*                                                                         *)
(* growth_rate is in hundredths (5% is 5), terminal_growth and the         *)
(* discount rate in thousandths (2% is 20, 12% is 120), a year's discount  *)
(* factor in ten-thousandths.                                              *)
(***************************************************************************)
\* mutation of lines 370-372: the rate is capped but not floored at 0
GrowthRateUnclamped(earnings_growth) ==
    Min(earnings_growth, 5)

\* lines 370-372
GrowthRate(earnings_growth) ==
    LET growth_rate == Min(earnings_growth, 5)
    IN  IF growth_rate < 0 THEN 0 ELSE growth_rate

\* line 375: min(growth_rate * 0.5, 0.02)
TerminalGrowth(growth_rate) ==
    Min(growth_rate * 5, 20)

\* line 378
DiscountRate == 120

\* lines 391-392: ((1 + growth_rate) / (1 + discount_rate)) ** year
RECURSIVE Discounted(_, _)
Discounted(growth_rate, year) ==
    IF year = 0 THEN 10000
    ELSE (Discounted(growth_rate, year - 1) * (100 + growth_rate) * 10)
            \div (1000 + DiscountRate)

\* lines 386-400: present value of ten projected years plus the terminal
\* value, in hundredths of a million
TotalValue(owner_earnings, growth_rate, terminal_growth) ==
    LET RECURSIVE PresentValue(_)
        PresentValue(year) ==
            IF year = 0 THEN 0
            ELSE PresentValue(year - 1) + Discounted(growth_rate, year)
        terminal_pv ==
            (Discounted(growth_rate, 10) * (1000 + terminal_growth))
                \div (DiscountRate - terminal_growth)
    IN  (owner_earnings * ((PresentValue(10) + terminal_pv) \div 100)) \div 100

\* lines 421-428
DcfWarnings(growth_rate, margin_of_safety) ==
    (IF growth_rate > 3
     THEN <<"Growth rate above 3% increases uncertainty">> ELSE <<>>)
        \o (IF margin_of_safety < 50
            THEN <<"Graham requires large margin for growth assumptions">>
            ELSE <<>>)

\* lines 358-435; the assumptions carry the rates that the code formats
\* into them
_calculate_conservative_dcf(stmts, price, m) ==
    IF ~Truthy(m.owner_earnings) \/ ~Truthy(m.earnings_growth) THEN None
    ELSE
    LET growth_rate == GrowthRate(Val(m.earnings_growth))
        terminal_growth == TerminalGrowth(growth_rate)
        total_value == TotalValue(Val(m.owner_earnings), growth_rate, terminal_growth)
        shares_outstanding == SharesOutstanding(stmts)
    IN  IF ~Truthy(shares_outstanding) THEN None
        ELSE
        LET dcf_per_share == total_value \div Val(shares_outstanding)
            margin_of_safety == MarginOfSafety(dcf_per_share, price)
        IN  Some(ValuationResultOf("Conservative DCF",
                    dcf_per_share, price, margin_of_safety, "low",
                    << <<"Growth rate (capped at 5%)", growth_rate>>,
                       <<"Terminal growth", terminal_growth>>,
                       <<"Discount rate", DiscountRate>>,
                       <<"10-year projection period", 10>> >>,
                    DcfWarnings(growth_rate, margin_of_safety)))

(***************************************************************************)
(* The statements of one ticker                                            *)
(***************************************************************************)
BalanceFields ==
    { "totalCurrentAssets", "totalCurrentLiabilities", "totalStockholderEquity",
      "commonStockSharesOutstanding", "totalLiabilities", "shortTermDebt",
      "longTermDebt", "intangibleAssets", "goodwill" }

BaseBalance ==
    [ totalCurrentAssets           |-> Num(500),
      totalCurrentLiabilities      |-> Num(200),
      totalStockholderEquity       |-> Num(1000),
      commonStockSharesOutstanding |-> Num(10),
      totalLiabilities             |-> Num(300),
      shortTermDebt                |-> Num(50),
      longTermDebt                 |-> Num(150),
      intangibleAssets             |-> Num(20),
      goodwill                     |-> Num(30) ]

BaseIncome ==
    [ netIncome |-> Num(100), depreciationAndAmortization |-> Num(20) ]

\* operating cash flow 120 and capex -30 are the test's 120,000,000 and
\* -30,000,000
BaseCashFlow ==
    [ operatingCashflow |-> Num(120), capitalExpenditures |-> Num(-30),
      dividendsPaid |-> Num(-5) ]

\* what a line item of the balance statement can hold
RawValues == { Missing, Null, Empty, Text, Num(0), Num(-10), Num(600) }

\* the pairs of line items varied together: a denominator and any other
FieldPairs ==
    { fg \in BalanceFields \X BalanceFields :
        \/ fg[1] = fg[2]
        \/ fg[1] \in { "commonStockSharesOutstanding", "totalStockholderEquity",
                       "totalCurrentLiabilities", "totalLiabilities" } }

\* the base balance with one or two line items replaced
BalanceVariants ==
    {BaseBalance} \cup
    { [[BaseBalance EXCEPT ![x[1][1]] = x[2][1]] EXCEPT ![x[1][2]] = x[2][2]] :
        x \in FieldPairs \X (RawValues \X RawValues) }

NetIncomes == { Missing, Null, Empty, Text, Num(0), Num(-100), Num(100), Num(121) }

IncomeVariants ==
    { [ netIncome |-> n, depreciationAndAmortization |-> d ] :
        n \in NetIncomes, d \in { Missing, Null, Num(0), Num(20) } }

CashFlowVariants ==
    { [ operatingCashflow |-> o, capitalExpenditures |-> c, dividendsPaid |-> d ] :
        o \in { Missing, Text, Num(0), Num(120), Num(-120) },
        c \in { Missing, Null, Text, Num(0), Num(-30), Num(30), Num(-200) },
        d \in { Missing, Num(-5), Num(0) } }

LatestFiscalYear == 2023

\* the statement kinds of the latest year, one of them varied at a time;
\* the income statement may be missing altogether
LatestStatements ==
    { << FinancialStatement("balance", LatestFiscalYear, b),
         FinancialStatement("income", LatestFiscalYear, BaseIncome),
         FinancialStatement("cash_flow", LatestFiscalYear, BaseCashFlow) >>
        : b \in BalanceVariants }
    \cup
    { << FinancialStatement("balance", LatestFiscalYear, BaseBalance),
         FinancialStatement("income", LatestFiscalYear, x[1]),
         FinancialStatement("cash_flow", LatestFiscalYear, x[2]) >>
        : x \in { v \in IncomeVariants : v.netIncome \in {Num(100), Null} }
                  \X CashFlowVariants }
    \cup
    { << FinancialStatement("balance", LatestFiscalYear, BaseBalance),
         FinancialStatement("income", LatestFiscalYear, i),
         FinancialStatement("cash_flow", LatestFiscalYear, BaseCashFlow) >>
        : i \in IncomeVariants }
    \cup
    { << FinancialStatement("balance", LatestFiscalYear, BaseBalance),
         FinancialStatement("cash_flow", LatestFiscalYear, c) >>
        : c \in CashFlowVariants }

\* how many earlier fiscal years a ticker can have income statements for
MaxHistory == 2

\* income statements of earlier years, oldest first; a year may be missing
RECURSIVE IncomeHistories(_)
IncomeHistories(n) ==
    IF n = 0 THEN { <<>> }
    ELSE LET rest == IncomeHistories(n - 1)
         IN  rest \cup
             { <<FinancialStatement("income", LatestFiscalYear - n,
                    [BaseIncome EXCEPT !.netIncome = x[1]])>> \o x[2] :
                 x \in { Num(100), Num(80), Num(0), Num(-5), Null, Text } \X rest }

\* an earlier year's statements, unlike the latest year's in every line item
\* they share with a single-year metric
EarlierBalance ==
    FinancialStatement("balance", LatestFiscalYear - 1,
        [BaseBalance EXCEPT !.totalCurrentAssets = Num(900),
                            !.totalStockholderEquity = Num(400),
                            !.commonStockSharesOutstanding = Num(20),
                            !.shortTermDebt = Null])

EarlierCashFlow ==
    FinancialStatement("cash_flow", LatestFiscalYear - 1,
        [BaseCashFlow EXCEPT !.operatingCashflow = Num(300)])

EarlierIncome ==
    FinancialStatement("income", LatestFiscalYear - 1,
        [BaseIncome EXCEPT !.netIncome = Num(50)])

LatestIncome(v) ==
    FinancialStatement("income", LatestFiscalYear, [BaseIncome EXCEPT !.netIncome = v])

LatestBalance == FinancialStatement("balance", LatestFiscalYear, BaseBalance)

LatestCashFlow == FinancialStatement("cash_flow", LatestFiscalYear, BaseCashFlow)

\* the latest year's balance statement with another shares figure
SharesBalance(v) ==
    FinancialStatement("balance", LatestFiscalYear,
        [BaseBalance EXCEPT !.commonStockSharesOutstanding = v])

\* lists in which a statement kind may exist for the earlier year only
StaleStatements ==
    { <<EarlierBalance, EarlierIncome, EarlierCashFlow>> \o l :
        l \in { <<>>,
                <<LatestBalance>>, <<LatestIncome(Num(100))>>, <<LatestCashFlow>>,
                <<LatestBalance, LatestIncome(Num(100))>>,
                <<LatestBalance, LatestCashFlow>>,
                <<LatestIncome(Num(100)), LatestCashFlow>>,
                <<LatestBalance, LatestIncome(Num(100)), LatestCashFlow>> } }

\* an income statement with the given net income
IncomeOf(year, net_income) ==
    FinancialStatement("income", year, [BaseIncome EXCEPT !.netIncome = Num(net_income)])

\* net incomes of the latest year that, after 10000 two years earlier, make a
\* whole-percent growth rate: -10%, 0, 1%, 2%, 4%, 5% and 10% a year
GrowthIncomes == { 8100, 10000, 10201, 10404, 10816, 11025, 12100 }

\* the balance statements of a list, in the order of the list: the latest
\* year's alone, with or without a usable shares figure, or an earlier year's
\* before or after it
BalanceOrders ==
    { <<LatestBalance>>,
      <<EarlierBalance, LatestBalance>>,
      <<LatestBalance, EarlierBalance>>,
      <<SharesBalance(Num(0))>>,
      <<SharesBalance(Missing)>>,
      <<SharesBalance(Num(-10))>>,
      <<SharesBalance(Text), EarlierBalance>> }

\* three years of positive net income, so that earnings_growth is present
GrowthStatements ==
    { <<IncomeOf(LatestFiscalYear - 2, 10000), IncomeOf(LatestFiscalYear - 1, 10000)>>
        \o x[1] \o <<IncomeOf(LatestFiscalYear, x[2]), x[3]>> :
        x \in BalanceOrders \X GrowthIncomes
                \X { LatestCashFlow,
                     FinancialStatement("cash_flow", LatestFiscalYear,
                        [BaseCashFlow EXCEPT !.operatingCashflow = Missing]) } }

StatementLists ==
    LatestStatements
    \cup GrowthStatements
    \cup { x[1] \o <<LatestBalance, LatestIncome(x[2]), LatestCashFlow>> :
            x \in IncomeHistories(MaxHistory) \X { Num(100), Num(121), Num(0), Null } }
    \cup StaleStatements
    \cup { <<>> }

\* cents
Prices == { 500, 2000, 7500 }

(***************************************************************************)
(* calculate_all_valuations on the statements of one ticker                *)
(***************************************************************************)
InitValuation ==
    /\ IdleProvider
    /\ config \in Configs
    /\ inputs = <<>>
    /\ results = <<>>
    /\ outcome = "pending"
    /\ qualified = <<>>
    /\ reasons = <<>>
    /\ universe = <<>>
    /\ provider = <<>>
    /\ batch_start = 0
    /\ tasks = <<>>
    /\ top_stocks = <<>>
    /\ IdleRank
    /\ statements \in StatementLists
    /\ current_price \in Prices
    /\ snapshot = <<>>
    /\ estimates = <<>>
    /\ triangulated = <<>>
    /\ pc = "metrics"

\* line 56
CalculateFinancialMetrics ==
    /\ pc = "metrics"
    /\ LET out == _calculate_financial_metrics(statements, "TEST", current_price, config)
       IN  /\ snapshot' = IF out.raised THEN <<>> ELSE out.metrics
           /\ pc' = IF out.raised THEN "raised" ELSE "epv"
    /\ UNCHANGED <<provider_vars, exit_code, filter_vars, batch_vars, rank_vars,
                   statements, current_price, estimates, triangulated>>

\* lines 59-62
CalculateEpv ==
    /\ pc = "epv"
    /\ LET epv_result == _calculate_epv(statements, current_price, snapshot)
       IN  estimates' = IF epv_result # None
                        THEN Append(estimates, Val(epv_result)) ELSE estimates
    /\ pc' = "asset"
    /\ UNCHANGED <<provider_vars, exit_code, filter_vars, batch_vars, rank_vars,
                   statements, current_price, snapshot, triangulated>>

\* lines 64-67
CalculateAssetValue ==
    /\ pc = "asset"
    /\ LET asset_result == _calculate_asset_value(statements, current_price, snapshot)
       IN  estimates' = IF asset_result # None
                        THEN Append(estimates, Val(asset_result)) ELSE estimates
    /\ pc' = "dcf"
    /\ UNCHANGED <<provider_vars, exit_code, filter_vars, batch_vars, rank_vars,
                   statements, current_price, snapshot, triangulated>>

\* lines 69-72
CalculateConservativeDcf ==
    /\ pc = "dcf"
    /\ LET dcf_result == _calculate_conservative_dcf(statements, current_price, snapshot)
       IN  estimates' = IF dcf_result # None
                        THEN Append(estimates, Val(dcf_result)) ELSE estimates
    /\ pc' = "valued"
    /\ UNCHANGED <<provider_vars, exit_code, filter_vars, batch_vars, rank_vars,
                   statements, current_price, snapshot, triangulated>>

NextValuation ==
    \/ CalculateFinancialMetrics
    \/ CalculateEpv
    \/ CalculateAssetValue
    \/ CalculateConservativeDcf

SpecValuation == InitValuation /\ [][NextValuation]_vars

(***************************************************************************)
(* The specification's reading of the filter and the scorer (spec.md 4.4), *)
(* written from its text, against which the code above is compared         *)
(***************************************************************************)
Contains(s, x) == \E i \in DOMAIN s : s[i] = x

RECURSIVE IsSubSeq(_, _)
IsSubSeq(s, t) ==
    IF s = <<>> THEN TRUE
    ELSE IF t = <<>> THEN FALSE
    ELSE IF Head(s) = Head(t) THEN IsSubSeq(Tail(s), Tail(t))
    ELSE IsSubSeq(s, Tail(t))

GrahamCheck(n, r, cfg) ==
    LET m == r.metrics
    IN  CASE n = 1 -> m.current_ratio # None /\ Val(m.current_ratio) >= cfg.min_current_ratio
          [] n = 2 -> m.debt_to_equity = None \/ Val(m.debt_to_equity) <= cfg.max_debt_to_equity
          [] n = 3 -> m.earnings_growth # None /\ Val(m.earnings_growth) >= 0
          [] n = 4 -> m.pe_ratio = None \/ Val(m.pe_ratio) <= cfg.max_pe_ratio
          [] n = 5 -> m.pb_ratio = None \/ Val(m.pb_ratio) <= cfg.max_pb_ratio
          [] n = 6 -> (m.pe_ratio # None /\ m.pb_ratio # None)
                          => Val(m.pe_ratio) * Val(m.pb_ratio) <= 225000
          [] n = 7 -> r.margin_of_safety >= cfg.min_margin_of_safety
          [] n = 8 -> m.book_value_per_share # None /\ Val(m.book_value_per_share) > 0

PassesAllEight(r, cfg) == \A n \in 1..8 : GrahamCheck(n, r, cfg)

\* the checks r violates, in check order
ViolatedChecks(r, cfg) ==
    SelectSeq(<<1, 2, 3, 4, 5, 6, 7, 8>>, LAMBDA n : ~GrahamCheck(n, r, cfg))

BucketSum(m, margin) ==
    (IF m.current_ratio = None THEN 0
     ELSE IF Val(m.current_ratio) >= 300 THEN 20
     ELSE IF Val(m.current_ratio) >= 200 THEN 15
     ELSE IF Val(m.current_ratio) >= 150 THEN 10
     ELSE IF Val(m.current_ratio) >= 100 THEN 5 ELSE 0)
    + (IF m.debt_to_equity = None THEN 0
       ELSE IF Val(m.debt_to_equity) <= 30 THEN 15
       ELSE IF Val(m.debt_to_equity) <= 50 THEN 10
       ELSE IF Val(m.debt_to_equity) <= 70 THEN 5 ELSE 0)
    + (IF m.pe_ratio = None THEN 0
       ELSE IF Val(m.pe_ratio) <= 1000 THEN 15
       ELSE IF Val(m.pe_ratio) <= 1500 THEN 10
       ELSE IF Val(m.pe_ratio) <= 2000 THEN 5 ELSE 0)
    + (IF m.pb_ratio = None THEN 0
       ELSE IF Val(m.pb_ratio) <= 100 THEN 10
       ELSE IF Val(m.pb_ratio) <= 150 THEN 5 ELSE 0)
    + (IF m.earnings_growth = None THEN 0
       ELSE IF Val(m.earnings_growth) >= 10 THEN 15
       ELSE IF Val(m.earnings_growth) >= 5 THEN 10
       ELSE IF Val(m.earnings_growth) > 0 THEN 5 ELSE 0)
    + (IF m.dividend_years >= 10 THEN 10
       ELSE IF m.dividend_years >= 5 THEN 5 ELSE 0)
    + (IF margin >= 70 THEN 15
       ELSE IF margin >= 50 THEN 10
       ELSE IF margin >= 30 THEN 5 ELSE 0)

FilterEnded == pc = "idle" /\ outcome \in {"returned", "raised"}

FilterReturned == pc = "idle" /\ outcome = "returned"

(***************************************************************************)
(* C1.  For every input list the filter returns a sub-sequence of its      *)
(* input, in input order, whose candidates all satisfy the eight checks    *)
(* under the configured thresholds, unmodified.                            *)
(* Fails: on a list holding a candidate without current_ratio the call     *)
(* raises (see C2) and returns nothing.                                    *)
(***************************************************************************)
C1_FilterReturnsCheckedSubsequence ==
    FilterEnded =>
        /\ outcome = "returned"
        /\ IsSubSeq(qualified, results)
        /\ \A i \in DOMAIN qualified : PassesAllEight(qualified[i], config)

\* What does hold of C1: whenever the call returns, the returned list is a
\* sub-sequence of the input whose candidates pass all eight checks
ReturnedListIsCheckedSubsequence ==
    FilterReturned =>
        /\ IsSubSeq(qualified, results)
        /\ \A i \in DOMAIN qualified : PassesAllEight(qualified[i], config)

(***************************************************************************)
(* C2.  A candidate whose current_ratio is absent makes the filter neither *)
(* raise nor accept it: check 1 is recorded as failed and the candidate is *)
(* not in the returned list.                                               *)
(* Fails: building the reason of check 1 formats None with :.2f.           *)
(***************************************************************************)
C2_AbsentCurrentRatioIsRejected ==
    FilterEnded =>
        \A i \in DOMAIN results :
            results[i].metrics.current_ratio = None =>
                /\ outcome = "returned"
                /\ Contains(reasons[i], 1)
                /\ ~Contains(qualified, results[i])

(***************************************************************************)
(* C4.  Check 3 fails exactly when earnings_growth is absent or negative:  *)
(* a candidate with earnings_growth = 0 that satisfies the other seven     *)
(* checks is accepted.                                                     *)
(* Fails: `not earnings_growth` is true of 0.0.                            *)
(***************************************************************************)
C4_ZeroGrowthPassesCheck3 ==
    FilterReturned =>
        \A i \in DOMAIN results :
            /\ Contains(reasons[i], 3) <=> ~GrahamCheck(3, results[i], config)
            /\ (/\ results[i].metrics.earnings_growth = Some(0)
                /\ PassesAllEight(results[i], config))
                   => Contains(qualified, results[i])

(***************************************************************************)
(* C5.  The candidate current_ratio 2.5, debt_to_equity 0.3, pe 12.0,      *)
(* pb 1.2, earnings_growth 0.08, dividend_years 10, book value 20, margin  *)
(* 0.6 is accepted under the default thresholds and scores in 80..100.     *)
(* Fails: the buckets give 15 + 15 + 10 + 5 + 10 + 10 + 10 = 75.           *)
(***************************************************************************)
C5_GoodCandidateScoresAtLeast80 ==
    (FilterEnded /\ config = DefaultConfig /\ inputs = <<Good>>) =>
        /\ Len(qualified) = 1
        /\ qualified[1].ticker = "GOOD"
        /\ qualified[1].graham_score >= 80
        /\ qualified[1].graham_score <= 100

C7_ScoreWithinBoundsWithoutCap ==
    \A i \in DOMAIN results :
        /\ results[i].graham_score \in 0..100
        /\ UncappedScore(results[i].metrics, results[i].margin_of_safety) <= 100
        /\ results[i].graham_score
               = UncappedScore(results[i].metrics, results[i].margin_of_safety)

\* a candidate with every bucket at its maximum
C7_Witness ==
    \E i \in DOMAIN results :
        /\ outcome # "unscored"
        /\ results[i].graham_score = 100
        /\ LiquidityScore(results[i].metrics) = 20
        /\ MarginScore(results[i].margin_of_safety) = 15

(***************************************************************************)
(* C8.  An absent debt_to_equity, pe_ratio or pb_ratio never produces a    *)
(* reason (checks 2, 4, 5, 6); an absent current_ratio or earnings_growth  *)
(* always produces one; a candidate with the three ratios absent that      *)
(* satisfies checks 1, 3, 7 and 8 is accepted.                             *)
(* Fails: an absent current_ratio raises instead (C2), and                 *)
(* earnings_growth = 0 satisfies check 3 yet is rejected (C4).             *)
(***************************************************************************)
C8_AbsentRatiosPassVacuously ==
    FilterEnded =>
        \A i \in DOMAIN results :
            LET m == results[i].metrics
            IN  /\ i \in DOMAIN reasons
                /\ m.debt_to_equity = None => ~Contains(reasons[i], 2)
                /\ m.pe_ratio = None =>
                       ~Contains(reasons[i], 4) /\ ~Contains(reasons[i], 6)
                /\ m.pb_ratio = None =>
                       ~Contains(reasons[i], 5) /\ ~Contains(reasons[i], 6)
                /\ m.current_ratio = None => Contains(reasons[i], 1)
                /\ m.earnings_growth = None => Contains(reasons[i], 3)
                /\ (/\ m.debt_to_equity = None
                    /\ m.pe_ratio = None
                    /\ m.pb_ratio = None
                    /\ \A n \in {1, 3, 7, 8} : GrahamCheck(n, results[i], config))
                       => Contains(qualified, results[i])

(***************************************************************************)
(* C9.  A candidate with pe_ratio and pb_ratio present and                 *)
(* pe_ratio * pb_ratio > 22.5 is never accepted, whatever max_pe_ratio and *)
(* max_pb_ratio are and also when pe_ratio alone is within max_pe_ratio;   *)
(* whenever the filter gets to the candidate it records check 6.           *)
(***************************************************************************)
C9_PeTimesPbAbove22_5IsRejected ==
    FilterEnded =>
        \A i \in DOMAIN results :
            LET m == results[i].metrics
            IN  (/\ m.pe_ratio # None
                 /\ m.pb_ratio # None
                 /\ Val(m.pe_ratio) * Val(m.pb_ratio) > 225000)
                    => /\ ~Contains(qualified, results[i])
                       /\ i \in DOMAIN reasons => Contains(reasons[i], 6)

\* check 6 alone rejects a candidate whose pe_ratio and pb_ratio are each
\* within the configured maxima
C9_Witness ==
    /\ FilterReturned
    /\ Len(results) = 1
    /\ reasons = << <<6>> >>
    /\ Val(results[1].metrics.pe_ratio) <= config.max_pe_ratio
    /\ Val(results[1].metrics.pb_ratio) <= config.max_pb_ratio
    /\ qualified = <<>>

(***************************************************************************)
(* C10.  For every candidate all eight checks are evaluated: the reasons   *)
(* list has one entry per violated check, in check order, so k violated    *)
(* checks give k reasons (the rejected example gives more than one).       *)
(* Fails: an absent current_ratio ends the call at check 1 (C2), and       *)
(* earnings_growth = 0 adds a reason for a check that is not violated (C4).*)
(***************************************************************************)
C10_OneReasonPerViolatedCheck ==
    FilterEnded =>
        /\ Len(reasons) = Len(results)
        /\ \A i \in DOMAIN results :
               /\ reasons[i] = ViolatedChecks(results[i], config)
               /\ results[i].ticker = "BAD" => Len(reasons[i]) > 1

(***************************************************************************)
(* C3.  run_screen completes without raising for every universe and every  *)
(* per-ticker outcome, and the tickers that qualify are exactly those      *)
(* whose own data passes the pipeline and the eight checks: a failing      *)
(* ticker excludes only itself.                                            *)
(* Fails: a ticker whose metrics lack current_ratio reaches the filter,    *)
(* which raises (C2) outside every try block of run_screen.                *)
(***************************************************************************)
\* ticker k yields a ScreenResult: profile, market cap, statements, price
\* and valuations are all usable
Screenable(k) ==
    LET d == provider[k]
    IN  /\ d.profile = "present"
        /\ ~(/\ config.min_market_cap # None
             /\ d.market_cap # None
             /\ Val(d.market_cap) < Val(config.min_market_cap))
        /\ get_financial_statements(d, config.years) >= 15
        /\ d.price # None /\ Val(d.price) > 0
        /\ d.valuator = "ok"
        /\ d.valuations # <<>>

QualifiesAlone(k) ==
    /\ Screenable(k)
    /\ LET r == _screen_single_stock(k, provider[k], config)
       IN  r # None /\ PassesAllEight(Val(r), config)

C3_RunScreenIsolatesTickers ==
    /\ pc # "raised"
    /\ pc = "done" =>
           { qualified[i].ticker : i \in DOMAIN qualified }
               = { k \in DOMAIN universe : QualifiesAlone(k) }

(***************************************************************************)
(* Ranking                                                                 *)
(***************************************************************************)
RankHasRun == pc \in {"ranked", "reranked"}

SameButRank(a, b) == [a EXCEPT !.rank = 0] = [b EXCEPT !.rank = 0]

\* C11: _rank_stocks returns a permutation of its input, ordered by
\* graham_score descending and then margin_of_safety descending, with rank
\* i+1 on the element at 0-based position i (ranks 1..n); rank is 0 on every
\* ScreenResult until _rank_stocks runs; ranking changes no field but rank.
C11_RankIsOrderedPermutationWithRanks ==
    /\ [](pc = "rank" => \A j \in DOMAIN qualified_stocks : qualified_stocks[j].rank = 0)
    /\ [](RankHasRun =>
            /\ Len(ranked) = Len(qualified_stocks)
            /\ \A i \in DOMAIN ranked : ranked[i].rank = i
            /\ \A i, k \in DOMAIN ranked :
                  i < k =>
                    \/ ranked[i].graham_score > ranked[k].graham_score
                    \/ /\ ranked[i].graham_score = ranked[k].graham_score
                       /\ ranked[i].margin_of_safety >= ranked[k].margin_of_safety)
    /\ [][pc = "rank" /\ pc' = "ranked" =>
            /\ \A j \in DOMAIN qualified_stocks :
                  Cardinality({i \in DOMAIN ranked' : SameButRank(ranked'[i], qualified_stocks[j])}) = 1
            /\ \A i \in DOMAIN ranked' :
                  \E j \in DOMAIN qualified_stocks : SameButRank(ranked'[i], qualified_stocks[j])
            /\ DOMAIN qualified_stocks' = DOMAIN qualified_stocks
            /\ \A j \in DOMAIN qualified_stocks : SameButRank(qualified_stocks'[j], qualified_stocks[j])]_vars

\* a lower-scored candidate in front of two higher-scored ones that differ
\* in margin only: the ranking reverses the list
C11_Witness ==
    /\ pc = "ranked"
    /\ Len(qualified_stocks) = 3
    /\ qualified_stocks[1].graham_score = 80 /\ qualified_stocks[1].margin_of_safety = 80
    /\ qualified_stocks[2].graham_score = 90 /\ qualified_stocks[2].margin_of_safety = 60
    /\ qualified_stocks[3].graham_score = 90 /\ qualified_stocks[3].margin_of_safety = 70
    /\ ranked[1].ticker = "S3" /\ ranked[2].ticker = "S2" /\ ranked[3].ticker = "S1"
    /\ qualified_stocks[1].rank = 3

\* C12: _rank_stocks is stable and deterministic: candidates with equal
\* graham_score and equal margin_of_safety keep their input order in the
\* output, and ranking the same input twice gives the same order.
C12_RankIsStableAndDeterministic ==
    /\ [](RankHasRun =>
            \A i, j \in DOMAIN qualified_stocks :
                (/\ i < j
                 /\ qualified_stocks[i].graham_score = qualified_stocks[j].graham_score
                 /\ qualified_stocks[i].margin_of_safety = qualified_stocks[j].margin_of_safety)
                    => PositionIn(ranked, qualified_stocks[i]) < PositionIn(ranked, qualified_stocks[j]))
    /\ [][pc = "ranked" /\ pc' = "reranked" => ranked' = ranked]_vars

\* two tied candidates in front of a better one, ranked twice
C12_Witness ==
    /\ pc = "reranked"
    /\ Len(qualified_stocks) = 3
    /\ qualified_stocks[1].graham_score = 85 /\ qualified_stocks[1].margin_of_safety = 70
    /\ qualified_stocks[2].graham_score = 85 /\ qualified_stocks[2].margin_of_safety = 70
    /\ qualified_stocks[3].graham_score = 90
    /\ ranked[1].ticker = "S3" /\ ranked[2].ticker = "S1" /\ ranked[3].ticker = "S2"

(***************************************************************************)
(* Triangulation                                                           *)
(***************************************************************************)
\* the weights of spec.md: high 3, medium 2, low 1, anything else 1
ConfidenceWeight(c) == IF c = "high" THEN 3 ELSE IF c = "medium" THEN 2 ELSE 1

RECURSIVE SumTo(_, _)
SumTo(f, n) == IF n = 0 THEN 0 ELSE f[n] + SumTo(f, n - 1)

WeightedMean(es) ==
    SumTo([i \in DOMAIN es |-> es[i].intrinsic_value * ConfidenceWeight(es[i].confidence)],
          Len(es))
      \div SumTo([i \in DOMAIN es |-> ConfidenceWeight(es[i].confidence)], Len(es))

Reorderings(n) ==
    {f \in [1..n -> 1..n] : \A i, j \in 1..n : f[i] = f[j] => i = j}

\* C13: triangulate_value returns sum(intrinsic_value_i * w_i) / sum(w_i)
\* with w = 3, 2, 1 for 'high', 'medium', 'low' and 1 for any other
\* confidence; the result does not depend on the order of the estimates and
\* is absent exactly when the list is empty.
C13_TriangulateIsWeightedMean ==
    pc = "triangulated" =>
        /\ triangulated = None <=> estimates = <<>>
        /\ estimates # <<>> => Val(triangulated) = WeightedMean(estimates)
        /\ \A f \in Reorderings(Len(estimates)) :
              triangulate_value([i \in DOMAIN estimates |-> estimates[f[i]]])
                  = triangulated

\* the list of test_triangulate_value: (16.80*3 + 2.0*2 + 25.0*1) / 6 = 13.23
C13_Witness ==
    /\ pc = "triangulated"
    /\ Len(estimates) = 3
    /\ estimates[1].intrinsic_value = 1680 /\ estimates[1].confidence = "high"
    /\ estimates[2].intrinsic_value = 200 /\ estimates[2].confidence = "medium"
    /\ estimates[3].intrinsic_value = 2500 /\ estimates[3].confidence = "low"
    /\ triangulated = Some(1323)

(***************************************************************************)
(* Metric extraction                                                       *)
(***************************************************************************)
\* _calculate_financial_metrics has returned a snapshot
MetricsReturned == pc \in {"epv", "asset", "dcf", "valued"}

\* the line item `key` of the latest year's statement of a kind, as a
\* number; None if there is no such statement or the item is not a number
LineItem(statement_type, key) ==
    IF statements = <<>> THEN None
    ELSE LET stmt == ByType(statements, statement_type, Val(LatestYear(statements)))
         IN  IF stmt = None THEN None ELSE _safe_float(Get(Val(stmt), key))

NotPositive(x) == x = None \/ Val(x) <= 0

\* C14: for every statement list and price, each ratio field of the snapshot
\* (current_ratio, debt_to_equity, book_value_per_share, ncav_per_share,
\* tangible_book_value, earnings_per_share, pe_ratio, pb_ratio, roe) is absent
\* whenever its denominator is <= 0 or missing, whatever the numerator, and
\* no exception is raised.
C14_RatioAbsentOnBadDenominator ==
    /\ pc # "raised"
    /\ MetricsReturned =>
        /\ NotPositive(LineItem("balance", "totalCurrentLiabilities"))
              => snapshot.current_ratio = None
        /\ NotPositive(LineItem("balance", "totalStockholderEquity"))
              => snapshot.debt_to_equity = None /\ snapshot.roe = None
        /\ NotPositive(LineItem("balance", "commonStockSharesOutstanding"))
              => /\ snapshot.book_value_per_share = None
                 /\ snapshot.ncav_per_share = None
                 /\ snapshot.tangible_book_value = None
                 /\ snapshot.earnings_per_share = None
        /\ NotPositive(snapshot.earnings_per_share) => snapshot.pe_ratio = None
        /\ NotPositive(snapshot.book_value_per_share) => snapshot.pb_ratio = None

\* the line item of the latest balance statement is in the dict but holds
\* null, '' or a string that is not a number
Malformed(key) ==
    /\ statements # <<>>
    /\ LET b == ByType(statements, "balance", Val(LatestYear(statements)))
       IN  b # None /\ Val(b)[key] \in {Null, Empty, Text}

\* C15: metric extraction never raises on malformed data: _safe_float yields
\* absent for null, '' and non-numeric strings and is idempotent, and
\* _calculate_financial_metrics completes, with the affected field absent
\* and a missing debt field treated as 0.
C15_MalformedDataNeverRaises ==
    /\ \A value \in {Null, Empty, Text} :
          /\ _safe_float(value) = None
          /\ _safe_float(AsRaw(_safe_float(value))) = _safe_float(value)
    /\ \A n \in {-10, 0, 600} :
          _safe_float(AsRaw(_safe_float(Num(n)))) = _safe_float(Num(n))
    /\ pc # "raised"
    /\ (MetricsReturned /\ (Malformed("shortTermDebt") \/ Malformed("longTermDebt")))
          => snapshot.debt_to_equity = None

\* the years for which the list holds an income statement
IncomeYears ==
    { statements[i].year :
        i \in { j \in DOMAIN statements : statements[j].statement_type = "income" } }

\* the net income of year y as a number, None if missing or not a number
NetIncomeOf(y) ==
    LET i == Max({ j \in DOMAIN statements :
                    /\ statements[j].statement_type = "income"
                    /\ statements[j].year = y })
    IN  _safe_float(Get(statements[i].data, "netIncome"))

\* g is (latest / earliest) ^ (1 / (n - 1)) - 1 in hundredths, rounded down
IsGrowthRate(g, earliest, latest, n) ==
    /\ earliest * Power(100 + g, n - 1) <= latest * Power(100, n - 1)
    /\ earliest * Power(101 + g, n - 1) > latest * Power(100, n - 1)

\* C16: _calculate_earnings_growth returns absent when fewer than 3 income
\* years are available or when any year has a missing, non-numeric or
\* non-positive net income; otherwise (latest/earliest)^(1/(n-1)) - 1 over the
\* years sorted ascending, from the first and last year only.
C16_GrowthNeedsEveryYearPositive ==
    MetricsReturned =>
        IF \/ Cardinality(IncomeYears) < 3
           \/ \E y \in IncomeYears : NotPositive(NetIncomeOf(y))
        THEN snapshot.earnings_growth = None
        ELSE /\ snapshot.earnings_growth # None
             /\ IsGrowthRate(Val(snapshot.earnings_growth),
                    Val(NetIncomeOf(CHOOSE y \in IncomeYears : \A z \in IncomeYears : y <= z)),
                    Val(NetIncomeOf(Max(IncomeYears))),
                    Cardinality(IncomeYears))

\* three valid years 100, 80, 121: (121/100)^(1/2) - 1 = 10%, whatever the
\* year in between holds
C16_Witness ==
    /\ MetricsReturned
    /\ Cardinality(IncomeYears) = 3
    /\ NetIncomeOf(2021) = Some(100)
    /\ NetIncomeOf(2022) = Some(80)
    /\ NetIncomeOf(2023) = Some(121)
    /\ snapshot.earnings_growth = Some(10)

\* owner earnings as the priority order of spec.md gives them, in hundredths
\* of a million: capex if reported, else depreciation if reported, else the
\* flat haircut
OwnerEarningsByPriority ==
    LET ocf == LineItem("cash_flow", "operatingCashflow")
        capex == LineItem("cash_flow", "capitalExpenditures")
        depreciation == LineItem("income", "depreciationAndAmortization")
        computed ==
            IF capex # None
            THEN Val(ocf) * 100 - Abs(Val(capex)) * config.capex_multiplier
            ELSE IF depreciation # None
            THEN Val(ocf) * 100 - Val(depreciation) * config.depreciation_conservatism
            ELSE Val(ocf) * 80
    IN  IF ocf = None THEN None
        ELSE IF computed <= 0 THEN None
        ELSE Some(computed)

\* C17: _calculate_owner_earnings follows the priority order on the latest
\* year: whenever capex is reported (any numeric value) owner_earnings =
\* operating_cash_flow - |capex| * capex_multiplier; depreciation *
\* depreciation_conservatism only when capex is not reported and depreciation
\* is; operating_cash_flow * 0.8 only when neither is; absent if operating
\* cash flow is absent or the result is <= 0.
C17_OwnerEarningsPriorityOrder ==
    MetricsReturned => snapshot.owner_earnings = OwnerEarningsByPriority

\* the statements of the latest fiscal year, in list order
LatestOnly ==
    SelectSeq(statements,
              LAMBDA stmt : stmt.year = Max({ statements[i].year : i \in DOMAIN statements }))

\* the fields of a snapshot computed from one year's statements
SingleYear(m) ==
    << m.current_ratio, m.debt_to_equity, m.book_value_per_share, m.ncav_per_share,
       m.tangible_book_value, m.earnings_per_share, m.pe_ratio, m.pb_ratio, m.roe,
       m.owner_earnings >>

\* C18: every single-year metric comes only from the statements whose year is
\* the maximum year over all statements; an earlier statement never
\* influences them (with no balance statement in the latest year they are
\* absent even if an earlier one exists); with an empty list only ticker is
\* populated, every optional field absent and dividend_years = 0.
C18_SingleYearMetricsFromLatestYear ==
    /\ (MetricsReturned /\ statements # <<>>) =>
          /\ SingleYear(snapshot) =
                SingleYear(_calculate_financial_metrics(LatestOnly, "TEST",
                                current_price, config).metrics)
          /\ (\A i \in DOMAIN LatestOnly : LatestOnly[i].statement_type # "balance")
                => /\ snapshot.current_ratio = None
                   /\ snapshot.debt_to_equity = None
                   /\ snapshot.book_value_per_share = None
                   /\ snapshot.ncav_per_share = None
                   /\ snapshot.tangible_book_value = None
                   /\ snapshot.earnings_per_share = None
                   /\ snapshot.pe_ratio = None
                   /\ snapshot.pb_ratio = None
                   /\ snapshot.roe = None
          /\ (\A i \in DOMAIN LatestOnly : LatestOnly[i].statement_type # "cash_flow")
                => snapshot.owner_earnings = None
    /\ (pc = "raised") =>
          _calculate_financial_metrics(LatestOnly, "TEST", current_price, config).raised
    /\ (MetricsReturned /\ statements = <<>>) =>
          /\ snapshot.ticker = "TEST"
          /\ SingleYear(snapshot) = [i \in 1..10 |-> None]
          /\ snapshot.earnings_growth = None
          /\ snapshot.dividend_years = 0

\* the latest year has income and cash-flow statements only; the balance
\* statement of the year before is left unread
C18_Witness ==
    /\ MetricsReturned
    /\ statements = <<EarlierBalance, EarlierIncome, EarlierCashFlow,
                      LatestIncome(Num(100)), LatestCashFlow>>
    /\ snapshot.current_ratio = None
    /\ snapshot.book_value_per_share = None
    /\ snapshot.owner_earnings # None

(***************************************************************************)
(* The estimates                                                           *)
(***************************************************************************)
EstimatesOf(method) ==
    { estimates[i] : i \in { j \in DOMAIN estimates : estimates[j].method = method } }

CurrentRatioBelowTwo ==
    snapshot.current_ratio = None \/ Val(snapshot.current_ratio) < 200

\* C19: every estimate of _calculate_epv has confidence 'high' exactly when
\* margin_of_safety >= 0.30 and current_ratio is present and >= 2.0, and
\* 'medium' otherwise; each failing condition adds its own warning, so the
\* number of warnings is the number of failing conditions.
C19_EpvConfidenceAndWarnings ==
    \A e \in EstimatesOf("Earnings Power Value (EPV)") :
        /\ e.confidence = IF e.margin_of_safety >= 30 /\ ~CurrentRatioBelowTwo
                          THEN "high" ELSE "medium"
        /\ Len(e.warnings) = (IF e.margin_of_safety < 30 THEN 1 ELSE 0)
                                + (IF CurrentRatioBelowTwo THEN 1 ELSE 0)
        /\ e.margin_of_safety < 30
              => \E i \in DOMAIN e.warnings : e.warnings[i] = "Margin of safety below 30%"
        /\ CurrentRatioBelowTwo
              => \E i \in DOMAIN e.warnings : e.warnings[i] = "Current ratio below 2.0"

\* an estimate whose margin is too thin while the current ratio is fine
C19_Witness ==
    \E e \in EstimatesOf("Earnings Power Value (EPV)") :
        /\ e.margin_of_safety < 30
        /\ ~CurrentRatioBelowTwo
        /\ e.confidence = "medium"
        /\ e.warnings = <<"Margin of safety below 30%">>

Positive(x) == x # None /\ Val(x) > 0

\* C20: _calculate_asset_value uses ncav_per_share when present and > 0 (base
\* confidence 'high'); otherwise tangible_book_value * 0.8 when present and
\* > 0 (base 'medium', haircut warning); otherwise absent.  A margin of safety
\* below 0.50 sets confidence 'low' and adds a warning; the intrinsic value
\* is always > 0 and confidence is 'high' only for an NCAV-based estimate
\* with margin >= 0.50.
C20_AssetValuePrefersNcav ==
    pc = "valued" =>
        LET asset == EstimatesOf("Asset-Based Valuation")
        IN  /\ Cardinality(asset) <= 1
            /\ asset = {} <=> ~Positive(snapshot.ncav_per_share)
                                /\ ~Positive(snapshot.tangible_book_value)
            /\ \A e \in asset :
                /\ e.intrinsic_value > 0
                /\ e.intrinsic_value =
                      IF Positive(snapshot.ncav_per_share)
                      THEN Val(snapshot.ncav_per_share)
                      ELSE (Val(snapshot.tangible_book_value) * 8) \div 10
                /\ e.confidence =
                      IF e.margin_of_safety < 50 THEN "low"
                      ELSE IF Positive(snapshot.ncav_per_share) THEN "high"
                      ELSE "medium"
                /\ (\E i \in DOMAIN e.warnings :
                        e.warnings[i] = "Assuming 20% haircut on tangible assets")
                      <=> ~Positive(snapshot.ncav_per_share)
                /\ (\E i \in DOMAIN e.warnings :
                        e.warnings[i] = "Graham prefers 50%+ margin for asset plays")
                      <=> e.margin_of_safety < 50

\* no positive NCAV, a positive tangible book value and a wide margin: the
\* haircut estimate at confidence 'medium'
C20_Witness ==
    /\ pc = "valued"
    /\ ~Positive(snapshot.ncav_per_share)
    /\ \E e \in EstimatesOf("Asset-Based Valuation") :
          /\ e.intrinsic_value = (Val(snapshot.tangible_book_value) * 8) \div 10
          /\ e.margin_of_safety >= 50
          /\ e.confidence = "medium"
          /\ e.warnings = <<"Assuming 20% haircut on tangible assets">>

\* the base statements at a price of 20.00, as the program computes them
BaseSnapshotIsComputed ==
    (MetricsReturned /\ config = DefaultConfig /\ current_price = 2000
        /\ statements = <<LatestBalance, LatestIncome(Num(100)), LatestCashFlow>>) =>
        /\ snapshot.current_ratio = Some(250)
        /\ snapshot.debt_to_equity = Some(20)
        /\ snapshot.roe = Some(10)
        /\ snapshot.pe_ratio = Some(200)
        /\ snapshot.pb_ratio = Some(20)
        /\ snapshot.book_value_per_share = Some(10000)
        /\ snapshot.earnings_per_share = Some(1000)
        /\ snapshot.owner_earnings = Some(8400)
        /\ snapshot.ncav_per_share = Some(2000)
        /\ snapshot.tangible_book_value = Some(9500)
        /\ snapshot.dividend_years = 1
        /\ snapshot.earnings_growth = None

(***************************************************************************)
(* The conservative DCF and the shares figure of the estimates             *)
(***************************************************************************)
\* the places of the balance statements with a usable shares figure
UsableShares ==
    { i \in DOMAIN statements :
        /\ statements[i].statement_type = "balance"
        /\ Truthy(_safe_float(Get(statements[i].data, "commonStockSharesOutstanding"))) }

\* the shares figure of the first of them in the order of the list
FirstUsableShares ==
    LET i == CHOOSE j \in UsableShares : \A k \in UsableShares : j <= k
    IN  Val(_safe_float(Get(statements[i].data, "commonStockSharesOutstanding")))

\* C21: _calculate_conservative_dcf returns an estimate whenever
\* owner_earnings and earnings_growth are both present and a balance statement
\* exposes shares outstanding, for every earnings_growth including 0 and
\* negative values, and returns absent only when one of the three is missing.
C21_DcfEstimateWheneverInputsPresent ==
    pc = "valued" =>
        (EstimatesOf("Conservative DCF") # {}
            <=> /\ snapshot.owner_earnings # None
                /\ snapshot.earnings_growth # None
                /\ UsableShares # {})

\* C24: in every estimate of _calculate_conservative_dcf growth_rate is
\* max(0, min(earnings_growth, 5%)) and lies in [0, 5%], terminal_growth is
\* min(growth_rate * 0.5, 2%) and lies in [0, 2%], the discount rate is 12% so
\* the Gordon denominator is > 0, confidence is 'low', and there is one warning
\* exactly when growth_rate > 3% and another exactly when the margin of safety
\* is below 0.50.
C24_DcfRatesBoundedConfidenceLow ==
    pc = "valued" =>
        \A e \in EstimatesOf("Conservative DCF") :
            LET growth_rate == e.assumptions[1][2]
                terminal_growth == e.assumptions[2][2]
                discount_rate == e.assumptions[3][2]
                uncertain == "Growth rate above 3% increases uncertainty"
                thin == "Graham requires large margin for growth assumptions"
            IN  /\ growth_rate = Max({0, Min(Val(snapshot.earnings_growth), 5)})
                /\ growth_rate \in 0..5
                /\ terminal_growth = Min(growth_rate * 5, 20)
                /\ terminal_growth \in 0..20
                /\ discount_rate = 120
                /\ discount_rate - terminal_growth > 0
                /\ e.confidence = "low"
                /\ Contains(e.warnings, uncertain) <=> growth_rate > 3
                /\ Contains(e.warnings, thin) <=> e.margin_of_safety < 50
                /\ Len(e.warnings) = (IF growth_rate > 3 THEN 1 ELSE 0)
                                      + (IF e.margin_of_safety < 50 THEN 1 ELSE 0)

\* shrinking earnings are projected flat, and a thin margin is warned of
C24_Witness ==
    /\ pc = "valued"
    /\ snapshot.earnings_growth # None
    /\ Val(snapshot.earnings_growth) < 0
    /\ \E e \in EstimatesOf("Conservative DCF") :
          /\ e.assumptions[1][2] = 0
          /\ e.assumptions[2][2] = 0
          /\ e.margin_of_safety < 50
          /\ e.warnings = <<"Graham requires large margin for growth assumptions">>

\* C25: _calculate_epv returns absent unless owner_earnings and
\* book_value_per_share are present and some balance statement exposes shares
\* outstanding; it divides by the shares of the first balance statement in
\* input order with a usable figure, as _calculate_conservative_dcf does;
\* intrinsic_value = owner_earnings / shares / 0.10 and margin_of_safety =
\* (epv - price) / epv, or -1 when epv <= 0.
C25_EpvUsesFirstUsableShares ==
    pc = "valued" =>
        /\ EstimatesOf("Earnings Power Value (EPV)") # {} =>
              /\ snapshot.owner_earnings # None
              /\ snapshot.book_value_per_share # None
              /\ UsableShares # {}
        /\ \A e \in EstimatesOf("Earnings Power Value (EPV)") :
              /\ e.intrinsic_value
                    = (Val(snapshot.owner_earnings) * 10) \div FirstUsableShares
              /\ e.margin_of_safety
                    = IF e.intrinsic_value > 0
                      THEN ((e.intrinsic_value - current_price) * 100)
                              \div e.intrinsic_value
                      ELSE -100
        /\ \A d \in EstimatesOf("Conservative DCF") :
              d.intrinsic_value
                  = TotalValue(Val(snapshot.owner_earnings),
                               d.assumptions[1][2], d.assumptions[2][2])
                        \div FirstUsableShares

\* an earlier year's balance statement comes first in the list and its shares
\* differ from the latest year's: both estimates divide by the earlier figure
C25_Witness ==
    /\ pc = "valued"
    /\ UsableShares # {}
    /\ LineItem("balance", "commonStockSharesOutstanding") # None
    /\ Val(LineItem("balance", "commonStockSharesOutstanding")) # FirstUsableShares
    /\ \E e \in EstimatesOf("Earnings Power Value (EPV)") :
          e.intrinsic_value = (Val(snapshot.owner_earnings) * 10) \div FirstUsableShares
    /\ EstimatesOf("Conservative DCF") # {}

(***************************************************************************)
(* The screening run: prices, statements, batches and the returned list    *)
(***************************************************************************)
\* every ScreenResult that exists: in a finished task, gathered, or returned
ScreenResults ==
    { Val(tasks[k].result) : k \in { j \in DOMAIN tasks : tasks[j].result # None } }
        \cup { results[i] : i \in DOMAIN results }
        \cup { top_stocks[i] : i \in DOMAIN top_stocks }

\* the provider has no price above 0 for ticker k
BadPrice(k) == provider[k].price = None \/ Val(provider[k].price) <= 0

\* C22: a ticker whose current price is absent, zero or negative is skipped by
\* _screen_single_stock: no ScreenResult is built for it and it never appears
\* in the output of run_screen; every ScreenResult that exists has
\* current_price > 0, the price the provider gave.
C22_NoResultWithoutPositivePrice ==
    /\ \A k \in DOMAIN tasks :
          (tasks[k].done /\ BadPrice(batch_start + k)) => tasks[k].result = None
    /\ \A r \in ScreenResults :
          /\ r.current_price > 0
          /\ ~BadPrice(r.ticker)
          /\ r.current_price = Val(provider[r.ticker].price)

\* a run over a ticker priced 0, a ticker priced below 0 and a qualifying
\* ticker returns the qualifying ticker alone
C22_Witness ==
    /\ pc = "done"
    /\ \E k \in DOMAIN provider : provider[k].price = Some(0)
    /\ \E k \in DOMAIN provider : provider[k].price # None /\ Val(provider[k].price) < 0
    /\ Len(top_stocks) = 1
    /\ ~BadPrice(top_stocks[1].ticker)

\* the statement records the provider returns for ticker k: of each of the
\* three kinds no more annual reports than config.years
StatementRecords(k) ==
    LET have == provider[k].annual_reports
        cut(n) == IF n > config.years THEN config.years ELSE n
    IN  cut(have[1]) + cut(have[2]) + cut(have[3])

C26_ReturnedListIsTopRanked ==
    pc = "done" =>
        /\ Len(top_stocks) <= config.top_count
        /\ \A i \in DOMAIN top_stocks :
              /\ PassesAllEight(top_stocks[i], config)
              /\ top_stocks[i].rank = i
              /\ \E j \in DOMAIN results :
                    SameButRank(results[j], top_stocks[i])
        /\ \A i, j \in DOMAIN top_stocks :
              i < j => top_stocks[i].graham_score >= top_stocks[j].graham_score

\* three tickers qualify and two are asked for: the list is cut after the
\* second rank
C26_Witness ==
    /\ pc = "done"
    /\ Len(qualified) = 3
    /\ config.top_count = 2
    /\ Len(top_stocks) = 2
    /\ top_stocks[1].graham_score > top_stocks[2].graham_score

\* the ScreenResults of the tickers at places 1..n of the universe, in order
RECURSIVE ScreenedUpTo(_)
ScreenedUpTo(n) ==
    IF n = 0 THEN <<>>
    ELSE LET r == _screen_single_stock(universe[n], provider[n], config)
         IN  ScreenedUpTo(n - 1) \o (IF r = None THEN <<>> ELSE <<Val(r)>>)

\* C27: run_screen processes the universe in consecutive batches of at most 10
\* tickers: at most 10 pipelines are in flight, no pipeline of the next batch
\* starts before every pipeline of the batch has finished, every ticker is
\* screened exactly once, and filtering and ranking start only after the last
\* batch has finished.
C27_BatchesOfTenInSequence ==
    /\ [](/\ Len(tasks) <= 10
          /\ batch_start % 10 = 0
          /\ tasks # <<>> =>
                /\ pc = "gather"
                /\ batch_start < Len(universe)
                /\ Len(tasks) = (IF batch_start + 10 <= Len(universe)
                                 THEN 10 ELSE Len(universe) - batch_start)
                /\ \A k \in DOMAIN tasks :
                      tasks[k].done =>
                          tasks[k].result
                              = _screen_single_stock(universe[batch_start + k],
                                                     provider[batch_start + k], config)
          /\ results = ScreenedUpTo(IF batch_start <= Len(universe)
                                    THEN batch_start ELSE Len(universe))
          /\ pc \in {"filter", "done", "raised"} =>
                /\ tasks = <<>>
                /\ batch_start >= Len(universe)
          /\ pc \in {"start", "batch", "gather"} =>
                /\ qualified = <<>>
                /\ top_stocks = <<>>)
    /\ [][/\ (tasks = <<>> /\ tasks' # <<>>) =>
                /\ batch_start' = batch_start
                /\ \A k \in DOMAIN tasks' : ~tasks'[k].done
          /\ (tasks # <<>> /\ tasks' # <<>>) =>
                /\ Len(tasks') = Len(tasks)
                /\ batch_start' = batch_start
                /\ \A k \in DOMAIN tasks : tasks[k].done => tasks'[k] = tasks[k]
          /\ batch_start' # batch_start =>
                /\ batch_start' = batch_start + 10
                /\ tasks # <<>>
                /\ \A k \in DOMAIN tasks : tasks[k].done
                /\ tasks' = <<>>]_vars

\* eleven tickers: the first ten are gathered and the eleventh is in flight
\* alone
C27_Witness ==
    /\ Len(universe) = 11
    /\ batch_start = 10
    /\ Len(tasks) = 1
    /\ ~tasks[1].done
    /\ results = ScreenedUpTo(10)
    /\ results # <<>>

(***************************************************************************)
(* Check 6 under the default thresholds                                    *)
(***************************************************************************)
\* C30: under the default thresholds (max_pe_ratio 15.0, max_pb_ratio 1.5)
\* check 6 is never the only violated check: every candidate that passes
\* checks 4 and 5 with both ratios present has pe_ratio * pb_ratio <= 22.5;
\* check 6 rejects a candidate on its own only when the configured
\* max_pe_ratio * max_pb_ratio exceeds 22.5.
C30_Check6NeverAloneByDefault ==
    FilterEnded =>
        \A i \in DOMAIN reasons :
            LET m == results[i].metrics
            IN  /\ config = DefaultConfig =>
                      /\ reasons[i] # <<6>>
                      /\ (/\ m.pe_ratio # None
                          /\ m.pb_ratio # None
                          /\ ~Contains(reasons[i], 4)
                          /\ ~Contains(reasons[i], 5))
                            => /\ Val(m.pe_ratio) * Val(m.pb_ratio) <= 225000
                               /\ ~Contains(reasons[i], 6)
                /\ reasons[i] = <<6>> =>
                      config.max_pe_ratio * config.max_pb_ratio > 225000

\* a candidate at both default maxima, 15.0 and 1.5, passes checks 4, 5 and 6
C30_Witness ==
    /\ FilterReturned
    /\ config = DefaultConfig
    /\ \E i \in DOMAIN reasons :
          /\ results[i].metrics.pe_ratio = Some(1500)
          /\ results[i].metrics.pb_ratio = Some(150)
          /\ ~Contains(reasons[i], 4)
          /\ ~Contains(reasons[i], 5)
          /\ ~Contains(reasons[i], 6)

(***************************************************************************)
(* main and its exit code                                                  *)
(***************************************************************************)
\* C23: a configuration error is the only class of error that aborts a run:
\* create raises for an unrecognized data_provider before any ticker is
\* screened and main returns exit code 1 without retrying; no missing-data or
\* out-of-domain condition of any ticker makes main return a non-zero exit
\* code.
C23_OnlyConfigurationErrorsAbort ==
    /\ CreateRaises([DefaultConfig EXCEPT !.data_provider = "unrecognized"])
    /\ CreateRaises(config) =>
          /\ pc \in {"main", "exit"}
          /\ results = <<>> /\ tasks = <<>> /\ batch_start = 0
    /\ pc = "exit" =>
          (exit_code = Some(1) <=> CreateRaises(config))

(***************************************************************************)
(* Requests, retries and key rotation                                      *)
(***************************************************************************)
\* C28: _make_request terminates for every sequence of responses: on a
\* rate-limit response with the shared key manager in use it rotates to the
\* next key (current_index becomes (current_index + 1) mod the number of keys,
\* always a valid index) and retries, at most 3 times (at most 4 attempts per
\* request), then returns absent; with a configured api_key it never rotates
\* or retries; under concurrent requests the provider's api_key equals the key
\* manager's current key after every rotation.
C28_MakeRequestRotatesAndTerminates ==
    /\ [](pc = "requests" =>
            /\ key_manager.current_index \in 0..(key_manager.keys - 1)
            /\ alpha_vantage.key_manager =>
                  alpha_vantage.api_key = <<"manager", key_manager.current_index>>
            /\ ~alpha_vantage.key_manager =>
                  /\ alpha_vantage.api_key = <<"configured">>
                  /\ key_manager.current_index = 0
            /\ \A r \in DOMAIN requests :
                  /\ requests[r].retry_count <= 3
                  /\ requests[r].attempts <= 4
                  /\ requests[r].attempts <= requests[r].retry_count + 1
                  /\ ~alpha_vantage.key_manager =>
                        /\ requests[r].retry_count = 0
                        /\ requests[r].at # "sleeping"
                  /\ (requests[r].at = "returned"
                        /\ requests[r].response = "rate_limited") =>
                        /\ requests[r].result = "None"
                        /\ alpha_vantage.key_manager =>
                              /\ requests[r].retry_count = 3
                              /\ requests[r].attempts = 4)
    /\ [][pc = "requests" =>
            /\ key_manager'.keys = key_manager.keys
            /\ \A r \in DOMAIN requests :
                  (requests[r].at = "awaiting" /\ requests'[r].at = "sleeping") =>
                      /\ requests'[r].response = "rate_limited"
                      /\ key_manager'.current_index
                            = (key_manager.current_index + 1) % key_manager.keys
                      /\ alpha_vantage'.api_key
                            = <<"manager", key_manager'.current_index>>
            /\ key_manager' # key_manager =>
                  \E r \in DOMAIN requests :
                      requests[r].at = "awaiting" /\ requests'[r].at = "sleeping"]_vars
    /\ <>[](\A r \in DOMAIN requests : requests[r].at = "returned")

\* two concurrent requests over two keys: the first is rate limited four
\* times and returns absent after its third retry, and the rotations have
\* wrapped the index around
C28_Witness ==
    /\ pc = "requests"
    /\ key_manager.keys = 2
    /\ Len(requests) = 2
    /\ requests[1].at = "returned"
    /\ requests[1].attempts = 4
    /\ requests[1].response = "rate_limited"
    /\ requests[1].result = "None"
    /\ requests[2].at = "sleeping"
    /\ key_manager.current_index = 0
    /\ alpha_vantage.api_key = <<"manager", 0>>

====
